---- MODULE Spec2Model ----
(***************************************************************************)
(* A model of the nc-js/ip library: the relaxed parsers of dotted-decimal  *)
(* IPv4 text and "ip:port" socket text, the strict public parse methods    *)
(* layered on them, the integer conversions with successor and             *)
(* predecessor of IPv4 and IPv6 addresses, the address predicates, the     *)
(* conversions between the families, the IpAddr wrapper, the address       *)
(* iterators, and the typed arrays that address objects hold by reference. *)
(*                                                                         *)
(* Text is a sequence of code points.  An Ipv4Addr is its 4 octets, an     *)
(* Ipv6Addr its 8 segments, a SocketAddrV4 the pair <<addr, port>>, and    *)
(* null is the empty tuple.                                                *)
(***************************************************************************)
EXTENDS Integers, Sequences, FiniteSets, TLC

VARIABLES
  input,  \* the input text handed to a parser
  op,     \* the operation that ran last
  ret,    \* the address or socket address it returned (null is the empty tuple)
  stop,   \* the index at which the relaxed parser behind it stopped
  cur,    \* the address a caller holds
  arg,    \* the address the last operation was called on, or was handed
  num,    \* the integer a caller holds
  numOf,  \* the address num is the integer form of, or null
  steps,  \* how many next()/previous() calls led to cur, or how many array writes were made
  iter,   \* the fields of an address iterator, or null
  results,\* what the iterator's next() calls returned, oldest first
  heap,   \* the typed arrays alive in the program, by reference
  held,   \* the reference an address object keeps as its buffer
  view,   \* the reference a caller got from octets() or segments()
  built,  \* the address the held object denoted when it was constructed
  thrown  \* the message of the exception the last operation raised, or ""

vars == <<input, op, ret, stop, cur, arg, num, numOf, steps,
          iter, results, heap, held, view, built, thrown>>

(***************************************************************************)
(* Bounds of the model.                                                    *)
(***************************************************************************)
\* longest run of unrelated characters appended after an input text
MaxJunk == 1
\* longest walk of next()/previous() calls from a starting address
MaxSteps == 2

(***************************************************************************)
(* Code points and JavaScript values.                                      *)
(***************************************************************************)
Dot == 46
Colon == 58
Digit0 == 48
Digit9 == 57
\* what s[i] yields outside the string
Undefined == -2
\* what Number.parseInt yields for text that starts with no digit
NaN == -1
Null == <<>>

\* JavaScript's relational operators on numbers: false when either side is NaN
Gt(x, y) == x # NaN /\ y # NaN /\ x > y
Ge(x, y) == x # NaN /\ y # NaN /\ x >= y
Le(x, y) == x # NaN /\ y # NaN /\ x <= y

\* s[i] for a 0-based index i
CharAt(s, i) == IF i >= 0 /\ i < Len(s) THEN s[i + 1] ELSE Undefined

\* s.slice(i)
Slice(s, i) == SubSeq(s, i + 1, Len(s))

\* a store into a Uint8Array element: NaN becomes 0, numbers wrap modulo 2^8
ToUint8(x) == IF x = NaN THEN 0 ELSE x % 256

(***************************************************************************)
(* Integers beyond 31 bits.  A JavaScript integer (a number or a bigint)   *)
(* is a sign and a magnitude, the magnitude in base 256 with the least     *)
(* significant digit first and no zero digit at the most significant end.  *)
(***************************************************************************)
RECURSIVE Normal(_)
Normal(mag) ==
  IF Len(mag) > 0 /\ mag[Len(mag)] = 0 THEN Normal(SubSeq(mag, 1, Len(mag) - 1))
  ELSE mag

MkInt(neg, mag) == [neg |-> neg /\ Normal(mag) # <<>>, mag |-> Normal(mag)]

IntZero == MkInt(FALSE, <<>>)

\* BigInt(n), or the number n itself, for 0 <= n < 2^16
IntOf(n) == MkInt(FALSE, <<n % 256, n \div 256>>)

\* Number(x) for 0 <= x < 2^16
NumberOf(x) ==
  (IF Len(x.mag) >= 1 THEN x.mag[1] ELSE 0) + 256 * (IF Len(x.mag) >= 2 THEN x.mag[2] ELSE 0)

\* magnitude + 1
RECURSIVE MagInc(_)
MagInc(mag) ==
  IF mag = <<>> THEN <<1>>
  ELSE IF mag[1] < 255 THEN <<mag[1] + 1>> \o Tail(mag)
  ELSE <<0>> \o MagInc(Tail(mag))

\* magnitude - 1, for a magnitude above 0
RECURSIVE MagDec(_)
MagDec(mag) ==
  IF mag[1] > 0 THEN <<mag[1] - 1>> \o Tail(mag)
  ELSE <<255>> \o MagDec(Tail(mag))

\* x + 1 and x - 1
IntAdd1(x) == IF x.neg THEN MkInt(TRUE, MagDec(x.mag)) ELSE MkInt(FALSE, MagInc(x.mag))

IntSub1(x) ==
  IF x.neg THEN MkInt(TRUE, MagInc(x.mag))
  ELSE IF x.mag = <<>> THEN MkInt(TRUE, <<1>>)
  ELSE MkInt(FALSE, MagDec(x.mag))

\* the digit of weight 256^i, 0 beyond the magnitude
DigitAt(mag, i) == IF i + 1 <= Len(mag) THEN mag[i + 1] ELSE 0

\* bitwise or and bitwise and of two bytes
RECURSIVE BitOr(_, _)
BitOr(x, y) ==
  IF x = 0 THEN y
  ELSE IF y = 0 THEN x
  ELSE 2 * BitOr(x \div 2, y \div 2) + (IF x % 2 = 1 \/ y % 2 = 1 THEN 1 ELSE 0)

RECURSIVE BitAnd(_, _)
BitAnd(x, y) ==
  IF x = 0 \/ y = 0 THEN 0
  ELSE 2 * BitAnd(x \div 2, y \div 2) + (IF x % 2 = 1 /\ y % 2 = 1 THEN 1 ELSE 0)

Max(x, y) == IF x >= y THEN x ELSE y

\* x | y, x << 16n, x >> bits (bits a multiple of 8) and x & 65535n on bigints >= 0
BigOr(x, y) ==
  MkInt(FALSE, [i \in 1..Max(Len(x.mag), Len(y.mag)) |->
                BitOr(DigitAt(x.mag, i - 1), DigitAt(y.mag, i - 1))])

\* a shift by one byte instead of two
BigShl8(x) == MkInt(FALSE, <<0>> \o x.mag)

BigShl16(x) == MkInt(FALSE, <<0, 0>> \o x.mag)

BigShr(x, bits) == MkInt(FALSE, SubSeq(x.mag, (bits \div 8) + 1, Len(x.mag)))

BigAnd65535(x) == MkInt(FALSE, <<DigitAt(x.mag, 0), DigitAt(x.mag, 1)>>)

(***************************************************************************)
(* 32-bit words of the bitwise operators on numbers: the four bytes of the *)
(* two's complement pattern, most significant first.                       *)
(***************************************************************************)
\* the digits of 2^32 - m for a magnitude 0 < m < 2^32: invert, then add 1
MagNegate(mag) == MagInc([i \in 1..4 |-> 255 - DigitAt(mag, i - 1)])

\* ToUint32(x) / ToInt32(x): the pattern of an integer x, modulo 2^32

WordOf(x) ==
  LET low == [i \in 1..4 |-> DigitAt(x.mag, i - 1)]
      le == IF x.neg /\ low # <<0, 0, 0, 0>> THEN MagNegate(low) ELSE low
  IN <<le[4], le[3], le[2], le[1]>>

\* b << bits for a byte b and bits in {0, 8, 16, 24}
WordShl(b, bits) == [i \in 1..4 |-> IF i = 4 - (bits \div 8) THEN b ELSE 0]

WordOr(p, q) == [i \in 1..4 |-> BitOr(p[i], q[i])]

\* the number a word denotes as the result of |, & or << (an int32) ...
WordSigned(p) ==
  IF p[1] >= 128 THEN MkInt(TRUE, MagNegate(<<p[4], p[3], p[2], p[1]>>))
  ELSE MkInt(FALSE, <<p[4], p[3], p[2], p[1]>>)

\* ... and as the result of >>> (a uint32)
WordUnsigned(p) == MkInt(FALSE, <<p[4], p[3], p[2], p[1]>>)

\* (x >>> bits) & 255 for bits in {0, 8, 16, 24}
WordByte(p, bits) == BitAnd(p[4 - (bits \div 8)], 255)

(***************************************************************************)
(* utils.ts                                                                *)
(***************************************************************************)
isValidUint8(n) == Ge(n, 0) /\ Le(n, 255)

isValidUint16(n) == Ge(n, 0) /\ Le(n, 65535)

\* A number that is no integer carries a third field: NaN, an infinity, or
\* the number half-way between an integer (its sign and magnitude) and the
\* next one away from zero.
NumberNaN == [neg |-> FALSE, mag |-> <<>>, kind |-> "NaN"]

NumberInfinity(neg) == [neg |-> neg, mag |-> <<>>, kind |-> "Infinity"]

NumberAndAHalf(x) == [neg |-> x.neg, mag |-> x.mag, kind |-> "fraction"]

NumberIsInteger(n) == DOMAIN n = {"neg", "mag"}

\* n >= 0
NumberGeZero(n) ==
  IF NumberIsInteger(n) THEN ~n.neg
  ELSE n.kind # "NaN" /\ ~n.neg

\* n <= 4_294_967_295
NumberLeUint32Max(n) ==
  IF NumberIsInteger(n) THEN n.neg \/ Len(n.mag) <= 4
  ELSE IF n.kind = "NaN" THEN FALSE
  ELSE IF n.kind = "Infinity" THEN n.neg
  ELSE n.neg \/ Len(n.mag) < 4 \/ (Len(n.mag) = 4 /\ n.mag # <<255, 255, 255, 255>>)

\* the range test without Number.isInteger
isValidUint32AnyNumber(n) == NumberGeZero(n) /\ NumberLeUint32Max(n)

\* isValidUint32 (isUint32 in v4/ipv4.ts) and isValidUint128 on integers
isValidUint32(n) == NumberGeZero(n) /\ NumberLeUint32Max(n) /\ NumberIsInteger(n)

isValidUint128(n) == ~n.neg /\ Len(n.mag) <= 16

isCodePointBetween(value, low, max) == value >= low /\ value <= max

isAsciiDigit(v) == isCodePointBetween(v, Digit0, Digit9)

\* the scanning loop of takeAsciiDigits: <<taken, idx>> when the loop exits
RECURSIVE takeLoop(_, _, _, _)
takeLoop(s, taken, idx, atMost) ==
  IF idx < Len(s) /\ Len(taken) < atMost /\ isAsciiDigit(CharAt(s, idx))
  THEN takeLoop(s, Append(taken, CharAt(s, idx)), idx + 1, atMost)
  ELSE <<taken, idx>>

\* a scan that stops one digit short of atMost
takeAsciiDigitsShort(s, at, atLeast, atMost) ==
  LET r == takeLoop(s, <<>>, at, atMost - 1)
  IN IF Len(r[1]) < atLeast THEN <<(<<>>), r[2]>> ELSE r

takeAsciiDigits(s, at, atLeast, atMost) ==
  LET r == takeLoop(s, <<>>, at, atMost)
  IN IF Len(r[1]) < atLeast THEN <<(<<>>), r[2]>> ELSE r

\* Number.parseInt(text, 10) of a text made of ASCII digits only
RECURSIVE parseInt(_)
parseInt(text) ==
  IF Len(text) = 0 THEN NaN
  ELSE IF Len(text) = 1 THEN text[1] - Digit0
  ELSE 10 * parseInt(SubSeq(text, 1, Len(text) - 1)) + (text[Len(text)] - Digit0)

\* the decimal text of a non-negative integer, as a template literal renders it
RECURSIVE NumberToString(_)
NumberToString(n) ==
  IF n < 10 THEN <<Digit0 + n>>
  ELSE Append(NumberToString(n \div 10), Digit0 + (n % 10))

(***************************************************************************)
(* v4/ipv4.ts: construction and text                                       *)
(***************************************************************************)
\* an array of any length taken as it is
tryFromUint8ArrayAnyLength(array) == array

tryFromUint8Array(array) == IF Len(array) = 4 THEN array ELSE Null

Ipv4ToString(v) ==
  NumberToString(v[1]) \o <<Dot>> \o NumberToString(v[2]) \o <<Dot>>
    \o NumberToString(v[3]) \o <<Dot>> \o NumberToString(v[4])

(***************************************************************************)
(* v4/ipv4.ts: the integer form, successor and predecessor                 *)
(***************************************************************************)
\* the same word without the closing >>> 0
uint8ArrayToInt32(array) ==
  WordSigned(
    WordOr(WordOr(WordOr(WordShl(array[1], 24), WordShl(array[2], 16)),
                  WordShl(array[3], 8)),
           WordShl(array[4], 0)))

uint8ArrayToUint32(array) ==
  WordUnsigned(
    WordOr(WordOr(WordOr(WordShl(array[1], 24), WordShl(array[2], 16)),
                  WordShl(array[3], 8)),
           WordShl(array[4], 0)))

Ipv4ToUint32(v) == uint8ArrayToUint32(v)

\* a split into bytes that skips the range check
Ipv4TryFromUint32Unchecked(uint32) ==
  <<WordByte(WordOf(uint32), 24), WordByte(WordOf(uint32), 16),
    WordByte(WordOf(uint32), 8), WordByte(WordOf(uint32), 0)>>

Ipv4TryFromUint32(uint32) ==
  IF ~isValidUint32(uint32) THEN Null
  ELSE <<WordByte(WordOf(uint32), 24), WordByte(WordOf(uint32), 16),
         WordByte(WordOf(uint32), 8), WordByte(WordOf(uint32), 0)>>

Ipv4Previous(v) == Ipv4TryFromUint32(IntSub1(Ipv4ToUint32(v)))

Ipv4Next(v) == Ipv4TryFromUint32(IntAdd1(Ipv4ToUint32(v)))

(***************************************************************************)
(* ipv6.ts: the integer form, successor and predecessor                    *)
(***************************************************************************)
\* the for loop of uint16ArrayToUint128, from the state (result, i)
RECURSIVE uint16Loop(_, _, _)
uint16Loop(array, result, i) ==
  IF i < Len(array)
  THEN uint16Loop(array, BigOr(BigShl16(result), IntOf(array[i + 1])), i + 1)
  ELSE result

uint16ArrayToUint128(array) == uint16Loop(array, IntZero, 0)

Ipv6ToUint128(v) == uint16ArrayToUint128(v)

Ipv6TryFromUint128(u128) ==
  IF ~isValidUint128(u128) THEN Null
  ELSE <<NumberOf(BigAnd65535(BigShr(u128, 112))),
         NumberOf(BigAnd65535(BigShr(u128, 96))),
         NumberOf(BigAnd65535(BigShr(u128, 80))),
         NumberOf(BigAnd65535(BigShr(u128, 64))),
         NumberOf(BigAnd65535(BigShr(u128, 48))),
         NumberOf(BigAnd65535(BigShr(u128, 32))),
         NumberOf(BigAnd65535(BigShr(u128, 16))),
         NumberOf(BigAnd65535(u128))>>

Ipv6Previous(v) == Ipv6TryFromUint128(IntSub1(Ipv6ToUint128(v)))

Ipv6Next(v) == Ipv6TryFromUint128(IntAdd1(Ipv6ToUint128(v)))

(***************************************************************************)
(* parser.ts: the relaxed parsers.  A ParseResult is <<value, index>>.     *)
(***************************************************************************)
\* a range test that lets 256 through
octetRejectedAbove256(octetNumber) == Gt(octetNumber, 256)

\* the range test on a parsed octet
octetRejected(octetNumber) == Gt(octetNumber, 255)

\* a dot demanded after the fourth octet too
dotExpectedAlways(seenDots) == seenDots <= 3

\* "check for next dot": only between octets, not after the fourth
dotExpected(seenDots) == seenDots < 3

\* the while loop of parseIpv4Addr, from the state (array, seenDots, idx)
RECURSIVE parseIpv4Loop(_, _, _, _)
parseIpv4Loop(s, array, seenDots, idx) ==
  IF seenDots <= 3
  THEN LET t == takeAsciiDigits(s, idx, 1, 3)
           octetString == t[1]
           newIdx == t[2]
           octetNumber == parseInt(octetString)
           stored == [array EXCEPT ![seenDots + 1] = ToUint8(octetNumber)]
       IN IF octetRejected(octetNumber) THEN <<Null, idx>>
          ELSE IF dotExpected(seenDots)
               THEN IF CharAt(s, newIdx) # Dot THEN <<Null, newIdx>>
                    ELSE parseIpv4Loop(s, stored, seenDots + 1, newIdx + 1)
               ELSE parseIpv4Loop(s, stored, seenDots + 1, newIdx)
  ELSE <<tryFromUint8Array(array), idx>>

parseIpv4Addr(s) == parseIpv4Loop(s, <<0, 0, 0, 0>>, 0, 0)

PortTryNew(value) == IF ~isValidUint16(value) THEN Null ELSE <<value>>

SocketAddrV4TryNew(addr, portNum) ==
  LET port == PortTryNew(portNum)
  IN IF port = Null THEN Null ELSE <<addr, port[1]>>

parseSocketAddrV4(s) ==
  LET r == parseIpv4Addr(s)
      addr == r[1]
      afterAddr == r[2]
  IN IF addr = Null THEN <<Null, afterAddr>>
     ELSE IF CharAt(s, afterAddr) # Colon THEN <<Null, afterAddr>>
     ELSE LET t == takeAsciiDigits(s, afterAddr + 1, 1, 5)
              portStr == t[1]
              afterPort == t[2]
              portNum == parseInt(portStr)
          IN <<SocketAddrV4TryNew(addr, portNum), afterPort>>

(***************************************************************************)
(* The strict public parse methods                                         *)
(***************************************************************************)
Ipv4AddrParse(s) ==
  LET r == parseIpv4Addr(s)
      result == r[1]
      afterResult == r[2]
  IN IF CharAt(s, afterResult) = Dot THEN Null ELSE result

SocketAddrV4Parse(s) == parseSocketAddrV4(s)[1]

(***************************************************************************)
(* Input texts: four octet texts joined by three separators, then an       *)
(* optional ":port" part, then a run of unrelated characters.              *)
(***************************************************************************)
OctetNums == {0, 25, 255, 256}

OctetTexts == {<<>>} \cup {NumberToString(n) : n \in OctetNums}

Seps == {<<Dot>>, <<>>}

PortNums == {80, 65535, 65536, 123456}

PortTexts == {<<>>} \cup {NumberToString(n) : n \in PortNums}

PortParts == {<<>>} \cup {<<Colon>> \o p : p \in PortTexts}

\* a dot, the letter a and the digit 5
JunkChars == {Dot, 97, 53}

RECURSIVE JunkOfLen(_)
JunkOfLen(n) ==
  IF n = 0 THEN {<<>>}
  ELSE {Append(j, c) : j \in JunkOfLen(n - 1), c \in JunkChars}

Junk == UNION {JunkOfLen(n) : n \in 0..MaxJunk}

AddrTexts ==
  {o1 \o d1 \o o2 \o d2 \o o3 \o d3 \o o4 :
     o1 \in OctetTexts, o2 \in OctetTexts, o3 \in OctetTexts, o4 \in OctetTexts,
     d1 \in Seps, d2 \in Seps, d3 \in Seps}

Inputs == {a \o p \o j : a \in AddrTexts, p \in PortParts, j \in Junk}

\* the inputs that start with the text of an address
AddressedInputs ==
  {Ipv4ToString(<<a, b, c, d>>) \o p \o j :
     a \in {n \in OctetNums : n <= 255}, b \in {n \in OctetNums : n <= 255},
     c \in {n \in OctetNums : n <= 255}, d \in {n \in OctetNums : n <= 255},
     p \in PortParts, j \in Junk}

(***************************************************************************)
(* The text specification: a caller holds a text and hands it to one of    *)
(* the parsers.                                                            *)
(***************************************************************************)
NoAddr == <<cur, arg, num, numOf, steps>>

\* no iterator and no typed array takes part in the text and address
\* specifications
NoObjects == <<iter, results, heap, held, view, built, thrown>>

NoObjectsInit ==
  /\ iter = Null
  /\ results = <<>>
  /\ heap = <<>>
  /\ held = ""
  /\ view = ""
  /\ built = Null
  /\ thrown = ""

Init ==
  /\ \/ input \in AddressedInputs
     \/ input \in Inputs
  /\ op = "none"
  /\ ret = Null
  /\ stop = 0
  /\ cur = Null
  /\ arg = Null
  /\ num = IntZero
  /\ numOf = Null
  /\ steps = 0
  /\ NoObjectsInit

CallParseIpv4Addr ==
  /\ op = "none"
  /\ op' = "parseIpv4Addr"
  /\ ret' = parseIpv4Addr(input)[1]
  /\ stop' = parseIpv4Addr(input)[2]
  /\ UNCHANGED <<input, NoAddr>>
  /\ UNCHANGED NoObjects

CallIpv4AddrParse ==
  /\ op = "none"
  /\ op' = "Ipv4Addr.parse"
  /\ ret' = Ipv4AddrParse(input)
  /\ stop' = parseIpv4Addr(input)[2]
  /\ UNCHANGED <<input, NoAddr>>
  /\ UNCHANGED NoObjects

CallParseSocketAddrV4 ==
  /\ op = "none"
  /\ op' = "parseSocketAddrV4"
  /\ ret' = parseSocketAddrV4(input)[1]
  /\ stop' = parseSocketAddrV4(input)[2]
  /\ UNCHANGED <<input, NoAddr>>
  /\ UNCHANGED NoObjects

CallSocketAddrV4Parse ==
  /\ op = "none"
  /\ op' = "SocketAddrV4.parse"
  /\ ret' = SocketAddrV4Parse(input)
  /\ stop' = parseSocketAddrV4(input)[2]
  /\ UNCHANGED <<input, NoAddr>>
  /\ UNCHANGED NoObjects

Next ==
  \/ CallParseIpv4Addr
  \/ CallIpv4AddrParse
  \/ CallParseSocketAddrV4
  \/ CallSocketAddrV4Parse

Spec == Init /\ [][Next]_vars

(***************************************************************************)
(* What a text says, read off the text itself: the digit groups of its     *)
(* four octet slots and the maximal digit run of its port.                 *)
(***************************************************************************)
IsDigit(c) == c \in Digit0..Digit9

\* how many digits stand at index at, counting at most most of them
RECURSIVE DigitRun(_, _, _)
DigitRun(s, at, most) ==
  IF most > 0 /\ at < Len(s) /\ IsDigit(s[at + 1]) THEN 1 + DigitRun(s, at + 1, most - 1)
  ELSE 0

\* the decimal value of a text of digits
RECURSIVE DecimalValue(_)
DecimalValue(digits) ==
  IF digits = <<>> THEN 0
  ELSE 10 * DecimalValue(SubSeq(digits, 1, Len(digits) - 1)) + (digits[Len(digits)] - Digit0)

\* slot k (0..3) starts after the group and the separator of slot k - 1
RECURSIVE SlotStart(_, _)
SlotStart(s, k) ==
  IF k = 0 THEN 0
  ELSE SlotStart(s, k - 1) + DigitRun(s, SlotStart(s, k - 1), 3) + 1

Group(s, k) == SubSeq(s, SlotStart(s, k) + 1, SlotStart(s, k) + DigitRun(s, SlotStart(s, k), 3))

GroupEnd(s, k) == SlotStart(s, k) + Len(Group(s, k))

\* slot k is reached when every slot before it holds at most 255 and ends in a dot
Reached(s, k) ==
  \A j \in 0..(k - 1) : DecimalValue(Group(s, j)) <= 255 /\ CharAt(s, GroupEnd(s, j)) = Dot

IsPrefix(p, s) == Len(p) <= Len(s) /\ SubSeq(s, 1, Len(p)) = p

ValidOctetNums == {n \in OctetNums : n <= 255}

TextAddrs ==
  {<<a, b, c, d>> : a \in ValidOctetNums, b \in ValidOctetNums,
                    c \in ValidOctetNums, d \in ValidOctetNums}

\* C1: Ipv4Addr.parse returns an address only if the relaxed parser consumed
\* the whole text; any character left after the fourth octet makes it null.
C1_StrictIpv4ConsumesAll ==
  (op = "Ipv4Addr.parse" /\ ret # Null) => stop = Len(input)

\* C2: SocketAddrV4.parse returns a socket address only if parseSocketAddrV4
\* consumed the whole text; any character left after the port digits makes it null.
C2_StrictSocketConsumesAll ==
  (op = "SocketAddrV4.parse" /\ ret # Null) => stop = Len(input)

\* C3: parseIpv4Addr returns null whenever one of the four octet slots it
\* reaches holds no digit; an empty octet is never read as a number.
C3_EmptyOctetIsNull ==
  (op = "parseIpv4Addr" /\ \E k \in 0..3 : Reached(input, k) /\ Group(input, k) = <<>>)
    => ret = Null

\* C4: for every address v and every suffix t that is empty or starts with no
\* digit, parseIpv4Addr(v.toString() + t) returns v and the length of
\* v.toString(), so that slicing the text at the index gives t.
C4_RelaxedAcceptsPrefix ==
  op = "parseIpv4Addr" =>
    \A v \in TextAddrs :
      LET p == Ipv4ToString(v)
          t == SubSeq(input, Len(p) + 1, Len(input))
      IN (IsPrefix(p, input) /\ (t = <<>> \/ ~IsDigit(t[1])))
           => ret = v /\ stop = Len(p) /\ Slice(input, stop) = t

C4_Witness ==
  /\ op = "parseIpv4Addr"
  /\ input = Ipv4ToString(<<25, 0, 255, 0>>) \o <<Dot>>
  /\ ret = <<25, 0, 255, 0>>
  /\ stop = 10
  /\ Slice(input, stop) = <<Dot>>

\* C5: parseIpv4Addr and Ipv4Addr.parse return null whenever a digit group
\* they capture is worth more than 255, and an octet of a returned address
\* is the value of its group, never that value reduced or clamped.
C5_OctetAbove255IsNull ==
  op \in {"parseIpv4Addr", "Ipv4Addr.parse"} =>
    /\ (\E k \in 0..3 : Reached(input, k) /\ DecimalValue(Group(input, k)) > 255)
         => ret = Null
    /\ ret # Null =>
         \A k \in 0..3 : Group(input, k) # <<>> => ret[k + 1] = DecimalValue(Group(input, k))

C5_Witness ==
  /\ op = "Ipv4Addr.parse"
  /\ Reached(input, 3)
  /\ \A k \in 0..2 : Group(input, k) # <<>>
  /\ DecimalValue(Group(input, 3)) = 256
  /\ ret = Null

\* the maximal run of digits that stands at index at
PortDigits(s, at) == SubSeq(s, at + 1, at + DigitRun(s, at, Len(s)))

\* C6: SocketAddrV4.parse succeeds with A and P on the text of A, ':' and the
\* digits of a port P <= 65535, and returns null on the empty text, on a
\* missing address, on an octet above 255, on a missing ':', on a missing
\* port and on port digits worth more than 65535.

C6_SocketParseTable ==
  op = "SocketAddrV4.parse" =>
    LET r == parseIpv4Addr(input)
        colon == r[1] # Null /\ CharAt(input, r[2]) = Colon
    IN /\ \A v \in TextAddrs, P \in PortNums :
            (P <= 65535 /\ input = Ipv4ToString(v) \o <<Colon>> \o NumberToString(P))
              => ret = <<v, P>>
       /\ input = <<>> => ret = Null
       /\ CharAt(input, 0) = Colon => ret = Null
       /\ (\E k \in 0..3 : Reached(input, k) /\ DecimalValue(Group(input, k)) > 255)
            => ret = Null
       /\ (r[1] # Null /\ CharAt(input, r[2]) # Colon) => ret = Null
       /\ (colon /\ PortDigits(input, r[2] + 1) = <<>>) => ret = Null
       /\ (colon /\ DecimalValue(PortDigits(input, r[2] + 1)) > 65535) => ret = Null

(***************************************************************************)
(* The address specification: a caller holds an address and an integer,    *)
(* converts between them and walks to neighbouring addresses.              *)
(***************************************************************************)
OctetVals == {0, 1, 10, 100, 127, 128, 255}

SegmentVals == {0, 1, 65535}

V4Addrs == {<<a, b, c, d>> : a \in OctetVals, b \in OctetVals, c \in OctetVals, d \in OctetVals}

V6Addrs ==
  {<<a, b, c, d>> \o <<e, f, g, h>> :
     a \in SegmentVals, b \in SegmentVals, c \in SegmentVals, d \in SegmentVals,
     e \in SegmentVals, f \in SegmentVals, g \in SegmentVals, h \in SegmentVals}

IsV4(v) == Len(v) = 4

IsV6(v) == Len(v) = 8

NoText == <<input, stop>>

InitAddr ==
  /\ cur \in V4Addrs \cup V6Addrs
  /\ op = "none"
  /\ ret = Null
  /\ arg = Null
  /\ num = IntZero
  /\ numOf = Null
  /\ steps = 0
  /\ input = <<>>
  /\ stop = 0
  /\ NoObjectsInit

\* n = cur.toUint32()
CallToUint32 ==
  /\ IsV4(cur)
  /\ op' = "toUint32"
  /\ arg' = cur
  /\ num' = Ipv4ToUint32(cur)
  /\ numOf' = cur
  /\ ret' = Null
  /\ input' = <<>>
  /\ UNCHANGED <<cur, steps, stop>>
  /\ UNCHANGED NoObjects

\* Ipv4Addr.tryFromUint32(n)
CallTryFromUint32 ==
  /\ op = "toUint32"
  /\ op' = "tryFromUint32"
  /\ arg' = Null
  /\ ret' = Ipv4TryFromUint32(num)
  /\ UNCHANGED <<cur, num, numOf, steps, NoText>>
  /\ UNCHANGED NoObjects

\* n = cur.toUint128()
CallToUint128 ==
  /\ IsV6(cur)
  /\ op' = "toUint128"
  /\ arg' = cur
  /\ num' = Ipv6ToUint128(cur)
  /\ numOf' = cur
  /\ ret' = Null
  /\ input' = <<>>
  /\ UNCHANGED <<cur, steps, stop>>
  /\ UNCHANGED NoObjects

\* Ipv6Addr.tryFromUint128(n)
CallTryFromUint128 ==
  /\ op = "toUint128"
  /\ op' = "tryFromUint128"
  /\ arg' = Null
  /\ ret' = Ipv6TryFromUint128(num)
  /\ UNCHANGED <<cur, num, numOf, steps, NoText>>
  /\ UNCHANGED NoObjects

\* the caller keeps the neighbour when there is one
Walk(name, result) ==
  /\ steps < MaxSteps
  /\ op' = name
  /\ arg' = cur
  /\ ret' = result
  /\ cur' = IF result # Null THEN result ELSE cur
  /\ steps' = steps + 1
  /\ num' = IntZero
  /\ numOf' = Null
  /\ input' = <<>>
  /\ UNCHANGED stop
  /\ UNCHANGED NoObjects

CallIpv4Next == IsV4(cur) /\ Walk("next", Ipv4Next(cur))

CallIpv4Previous == IsV4(cur) /\ Walk("previous", Ipv4Previous(cur))

CallIpv6Next == IsV6(cur) /\ Walk("next", Ipv6Next(cur))

CallIpv6Previous == IsV6(cur) /\ Walk("previous", Ipv6Previous(cur))

\* text = cur.toString()
CallIpv4ToString ==
  /\ IsV4(cur)
  /\ op' = "toString"
  /\ arg' = cur
  /\ input' = Ipv4ToString(cur)
  /\ ret' = Null
  /\ num' = IntZero
  /\ numOf' = Null
  /\ UNCHANGED <<cur, steps, stop>>
  /\ UNCHANGED NoObjects

\* Ipv4Addr.parse(text)
CallParseRendered ==
  /\ op = "toString"
  /\ op' = "parse"
  /\ ret' = Ipv4AddrParse(input)
  /\ UNCHANGED <<cur, arg, num, numOf, steps, NoText>>
  /\ UNCHANGED NoObjects

NextAddr ==
  \/ CallIpv4ToString
  \/ CallParseRendered
  \/ CallToUint32
  \/ CallTryFromUint32
  \/ CallToUint128
  \/ CallTryFromUint128
  \/ CallIpv4Next
  \/ CallIpv4Previous
  \/ CallIpv6Next
  \/ CallIpv6Previous

SpecAddr == InitAddr /\ [][NextAddr]_vars

\* w is the address after v: some position goes up by one, every position
\* after it goes from the largest value to 0, every position before it stays
IsSuccessor(v, w, largest) ==
  /\ Len(w) = Len(v)
  /\ \E k \in 1..Len(v) :
       /\ w[k] = v[k] + 1
       /\ \A j \in 1..Len(v) : j < k => w[j] = v[j]
       /\ \A j \in 1..Len(v) : j > k => v[j] = largest /\ w[j] = 0

Largest(v) == IF IsV4(v) THEN 255 ELSE 65535

AllOf(v, n) == \A j \in 1..Len(v) : v[j] = n

\* C7: for every IPv4 address v, Ipv4Addr.parse(v.toString()) equals v.
C7_TextRoundTrip == op = "parse" => ret = arg

C7_Witness ==
  /\ op = "parse"
  /\ arg = <<127, 0, 1, 255>>
  /\ input = <<49, 50, 55, Dot, 48, Dot, 49, Dot, 50, 53, 53>>
  /\ ret = <<127, 0, 1, 255>>

\* C8: toUint32 of (a,b,c,d) is a*2^24 + b*2^16 + c*2^8 + d, a value in
\* 0..4294967295 even when a >= 128, and tryFromUint32 of it is the address.
C8_Uint32RoundTrip ==
  /\ op = "toUint32" =>
       /\ ~num.neg
       /\ Len(num.mag) <= 4
       /\ DigitAt(num.mag, 3) = arg[1]
       /\ DigitAt(num.mag, 0) + 256 * DigitAt(num.mag, 1) + 65536 * DigitAt(num.mag, 2)
            = arg[4] + 256 * arg[3] + 65536 * arg[2]
  /\ op = "tryFromUint32" => ret # Null /\ ret = numOf

C8_Witness ==
  /\ op = "tryFromUint32"
  /\ numOf = <<128, 0, 255, 1>>
  /\ num = [neg |-> FALSE, mag |-> <<1, 255, 0, 128>>]
  /\ ret = <<128, 0, 255, 1>>

\* C9: toUint128 is the eight segments concatenated most significant first,
\* a value in 0..2^128-1, and tryFromUint128 of it is the address.
C9_Uint128RoundTrip ==
  /\ op = "toUint128" =>
       /\ ~num.neg
       /\ Len(num.mag) <= 16
       /\ \A i \in 0..7 :
            DigitAt(num.mag, 2 * i) + 256 * DigitAt(num.mag, 2 * i + 1) = arg[8 - i]
  /\ op = "tryFromUint128" => ret # Null /\ ret = numOf

C9_Witness ==
  /\ op = "tryFromUint128"
  /\ numOf = <<65535, 0, 0, 0, 1, 0, 65535, 1>>
  /\ ret = <<65535, 0, 0, 0, 1, 0, 65535, 1>>

\* C10: next() is null exactly on the all-ones address and otherwise the
\* address one greater; previous() is null exactly on the all-zero address
\* and otherwise the address one less; neither wraps.
C10_NeighboursNeverWrap ==
  /\ op = "next" =>
       /\ ret = Null <=> AllOf(arg, Largest(arg))
       /\ ret # Null => IsSuccessor(arg, ret, Largest(arg))
  /\ op = "previous" =>
       /\ ret = Null <=> AllOf(arg, 0)
       /\ ret # Null => IsSuccessor(ret, arg, Largest(arg))

C10_Witness ==
  /\ op = "next"
  /\ arg = <<0, 0, 0, 255>>
  /\ ret = <<0, 0, 1, 0>>

(***************************************************************************)
(* utils.ts: arrayStartsWith                                               *)
(***************************************************************************)
arrayStartsWith(a, b) ==
  IF Len(b) > Len(a) THEN FALSE
  ELSE \A i \in 1..Len(b) : a[i] = b[i]

(***************************************************************************)
(* v4/ipv4.ts: the shared instances and the predicates                     *)
(***************************************************************************)
Ipv4BROADCAST == <<255, 255, 255, 255>>

Ipv4LOCALHOST == <<127, 0, 0, 1>>

Ipv4UNSPECIFIED == <<0, 0, 0, 0>>

Ipv4Equals(v, other) ==
  v[1] = other[1] /\ v[2] = other[2] /\ v[3] = other[3] /\ v[4] = other[4]

Ipv4IsBenchmarking(v) == v[1] = 198 /\ BitAnd(v[2], 254) = 18

Ipv4IsBroadcast(v) == Ipv4Equals(v, Ipv4BROADCAST)

Ipv4IsDocumentation(v) ==
  \/ arrayStartsWith(v, <<192, 0, 2>>)
  \/ arrayStartsWith(v, <<198, 51, 100>>)
  \/ arrayStartsWith(v, <<203, 0, 113>>)

Ipv4IsLinkLocal(v) == arrayStartsWith(v, <<169, 254>>)

Ipv4IsLoopback(v) == v[1] = 127

Ipv4IsMulticast(v) == v[1] >= 224 /\ v[1] <= 239

Ipv4IsPrivate(v) ==
  \/ v[1] = 10
  \/ (v[1] = 172 /\ (v[2] >= 16 /\ v[2] <= 31))
  \/ (v[1] = 192 /\ v[2] = 168)

\* the range 240.0.0.0/4 with the broadcast address left in
Ipv4IsReservedWithBroadcast(v) == BitAnd(v[1], 240) = 240

Ipv4IsReserved(v) == BitAnd(v[1], 240) = 240 /\ ~Ipv4IsBroadcast(v)

\* a test of the 64 bit alone
Ipv4IsSharedOneBit(v) == v[1] = 100 /\ BitAnd(v[2], 64) = 64

Ipv4IsShared(v) == v[1] = 100 /\ BitAnd(v[2], 192) = 64

Ipv4IsUnspecified(v) == Ipv4Equals(v, Ipv4UNSPECIFIED)

Ipv4IsGlobal(v) ==
  ~(\/ v[1] = 0
    \/ Ipv4IsPrivate(v)
    \/ Ipv4IsShared(v)
    \/ Ipv4IsLoopback(v)
    \/ Ipv4IsLinkLocal(v)
    \/ (v[1] = 192 /\ v[2] = 0 /\ v[3] = 0 /\ v[4] # 9 /\ v[4] # 10)
    \/ Ipv4IsDocumentation(v)
    \/ Ipv4IsBenchmarking(v)
    \/ Ipv4IsReserved(v)
    \/ Ipv4IsBroadcast(v))

(***************************************************************************)
(* ipv6.ts: the shared instances and the predicates                        *)
(***************************************************************************)
Ipv6LOCALHOST == <<0, 0, 0, 0, 0, 0, 0, 1>>

Ipv6UNSPECIFIED == <<0, 0, 0, 0, 0, 0, 0, 0>>

Ipv6Equals(v, other) ==
  v[1] = other[1] /\ v[2] = other[2] /\ v[3] = other[3] /\ v[4] = other[4] /\
  v[5] = other[5] /\ v[6] = other[6] /\ v[7] = other[7] /\ v[8] = other[8]

\* BigInt("0x...") of a hexadecimal text, given as its bytes from the left
BigIntOfHex(bytes) == MkInt(FALSE, [i \in 1..Len(bytes) |-> bytes[Len(bytes) + 1 - i]])

\* a test that leaves the second segment out
Ipv6IsBenchmarkingAnySecond(v) == v[1] = 8193 /\ v[3] = 0

Ipv6IsBenchmarking(v) == v[1] = 8193 /\ v[2] = 2 /\ v[3] = 0

Ipv6IsDocumentation(v) == v[1] = 8193 /\ v[2] = 3512

Ipv6IsDiscardOnly(v) == arrayStartsWith(v, <<256, 0, 0, 0>>)

Ipv6IsIpv4Mapped(v) == arrayStartsWith(v, <<0, 0, 0, 0, 0, 65535>>)

Ipv6IsIpv4Translated(v) == arrayStartsWith(v, <<100, 65435, 1>>)

Ipv6IsLoopback(v) == Ipv6Equals(v, Ipv6LOCALHOST)

Ipv6IsMulticast(v) == BitAnd(v[1], 65280) = 65280

Ipv6IsUnicastLinkLocal(v) == BitAnd(v[1], 65472) = 65152

\* a test of the first byte alone
Ipv6IsUniqueLocalByte(v) == BitAnd(v[1], 65280) = 64512

Ipv6IsUniqueLocal(v) == BitAnd(v[1], 65024) = 64512

Ipv6IsUnspecified(v) == Ipv6Equals(v, Ipv6UNSPECIFIED)

Ipv6IsGlobal(v) ==
  ~(\/ Ipv6IsUnspecified(v)
    \/ Ipv6IsLoopback(v)
    \/ Ipv6IsIpv4Mapped(v)
    \/ Ipv6IsIpv4Translated(v)
    \/ Ipv6IsDiscardOnly(v)
    \/ /\ (v[1] = 8193 /\ v[2] < 512)
       /\ ~(\/ uint16ArrayToUint128(v) =
                 BigIntOfHex(<<32, 1, 0, 1, 0, 0, 0, 0, 0, 0, 0, 0, 0, 0, 0, 1>>)
            \/ uint16ArrayToUint128(v) =
                 BigIntOfHex(<<32, 1, 0, 1, 0, 0, 0, 0, 0, 0, 0, 0, 0, 0, 0, 2>>)
            \/ arrayStartsWith(v, <<8193, 3>>)
            \/ arrayStartsWith(v, <<8193, 4, 274>>)
            \/ (v[1] = 8193 /\ (v[2] >= 16 /\ v[2] <= 63)))
    \/ v[1] = 8194
    \/ Ipv6IsDocumentation(v)
    \/ Ipv6IsUniqueLocal(v)
    \/ Ipv6IsUnicastLinkLocal(v))

(***************************************************************************)
(* ipv6.ts and v4/ipv4.ts: construction from arrays and views, octets()    *)
(* and the conversions between the families                                *)
(***************************************************************************)
Ipv4TryNew(a, b, c, d) ==
  IF ~isValidUint8(a) \/ ~isValidUint8(b) \/ ~isValidUint8(c) \/ ~isValidUint8(d)
  THEN Null
  ELSE <<a, b, c, d>>

tryFromUint16Array(array) == IF Len(array) = 8 THEN array ELSE Null

\* view.getUint16(byteOffset): two bytes from byteOffset on, big-endian
getUint16(bytes, byteOffset) == bytes[byteOffset + 1] * 256 + bytes[byteOffset + 2]

Ipv6TryFromDataView(bytes) ==
  IF Len(bytes) # 16 THEN Null
  ELSE <<getUint16(bytes, 0), getUint16(bytes, 1), getUint16(bytes, 2),
         getUint16(bytes, 3), getUint16(bytes, 4), getUint16(bytes, 5),
         getUint16(bytes, 6), getUint16(bytes, 7)>>

\* octets with the lower byte of each segment first
Ipv6OctetsLowFirst(v) ==
  [k \in 1..16 |->
     IF k % 2 = 1 THEN BitAnd(v[(k + 1) \div 2], 255)
     ELSE BitAnd(v[k \div 2] \div 256, 255)]

Ipv6Octets(v) ==
  [k \in 1..16 |->
     IF k % 2 = 1 THEN BitAnd(v[(k + 1) \div 2] \div 256, 255)
     ELSE BitAnd(v[k \div 2], 255)]

uint16ToUint8Array(value) == <<BitAnd(value, 255), BitAnd(value \div 256, 255)>>

Ipv6ToIpv4(v) ==
  IF arrayStartsWith(v, <<0, 0, 0, 0, 0>>) /\ (v[6] = 0 \/ v[6] = 65535)
  THEN LET ab == uint16ToUint8Array(v[7])
           cd == uint16ToUint8Array(v[8])
       IN  tryFromUint8Array(<<ab[1], ab[2], cd[1], cd[2]>>)
  ELSE Null

Ipv6ToIpv4Mapped(v) ==
  LET octets == Ipv6Octets(v)
      mapped == <<0, 0, 0, 0, 0, 0, 0, 0, 0, 0, 255, 255>>
  IN  IF ~arrayStartsWith(octets, mapped) THEN Null
      ELSE Ipv4TryNew(octets[13], octets[14], octets[15], octets[16])

\* Ipv6Addr.tryFromUint8Array: 16 bytes, each pair one big-endian segment
Ipv6TryFromUint8Array(array) ==
  IF Len(array) # 16 THEN Null
  ELSE [i \in 1..8 |-> array[2 * i - 1] * 256 + array[2 * i]]

Ipv4ToIpv6Compatible(v) ==
  Ipv6TryFromUint8Array(<<0, 0, 0, 0, 0, 0, 0, 0, 0, 0, 0, 0, v[1], v[2], v[3], v[4]>>)

Ipv4ToIpv6Mapped(v) ==
  Ipv6TryFromUint8Array(<<0, 0, 0, 0, 0, 0, 0, 0, 0, 0, 255, 255, v[1], v[2], v[3], v[4]>>)

(***************************************************************************)
(* ip.ts: the IpAddr wrapper, a record with the one field addr             *)
(***************************************************************************)
IpAddr(addr) == [addr |-> addr]

\* other.a .. other.h of an IpAddr: the class has no such properties
IpAddrSegmentGetters(other) == [k \in 1..8 |-> Undefined]

\* this.addr.equals(other), with other the wrapper itself
IpAddrEquals(x, other) ==
  IF IsV4(x.addr) THEN Ipv4Equals(x.addr, IpAddrSegmentGetters(other))
  ELSE Ipv6Equals(x.addr, IpAddrSegmentGetters(other))

(***************************************************************************)
(* The classification specification: a caller holds an address and asks    *)
(* one question of it, or converts it once.                                *)
(***************************************************************************)
\* octets on both sides of every range boundary the predicates test
ClassV4Addrs ==
  {<<a, b, c, d>> :
     a \in {0, 1, 10, 100, 127, 169, 172, 192, 198, 203, 224, 239, 240, 255},
     b \in {0, 16, 18, 20, 31, 32, 51, 63, 64, 127, 128, 168, 254, 255},
     c \in {0, 2, 100, 113, 255},
     d \in {0, 9, 10, 11, 255}}

\* segments on both sides of every prefix boundary the predicates test; the
\* last two segments carry bytes that differ
ClassV6Addrs ==
  {<<a, b, c>> \o de \o <<f, g, h>> :
     a \in {0, 100, 256, 8192, 8193, 8194, 64511, 64512, 65023, 65024,
            65151, 65152, 65215, 65216, 65280},
     b \in {0, 1, 2, 3, 4, 15, 16, 63, 64, 511, 512, 3512, 65435},
     c \in {0, 1, 274},
     de \in {<<0, 0>>, <<1, 0>>, <<0, 1>>},
     f \in {0, 65535},
     g \in {0, 258},
     h \in {0, 1, 2, 258}}

Ipv6IsUnicast(v) == ~Ipv6IsMulticast(v)

Ipv6IsUnicastGlobal(v) ==
  /\ Ipv6IsUnicast(v)
  /\ ~Ipv6IsLoopback(v)
  /\ ~Ipv6IsUnicastLinkLocal(v)
  /\ ~Ipv6IsUniqueLocal(v)
  /\ ~Ipv6IsUnspecified(v)
  /\ ~Ipv6IsDocumentation(v)
  /\ ~Ipv6IsBenchmarking(v)

\* the value of an Ipv6MulticastScope: its name in a tuple, apart from null
ScopeOf(name) == <<name>>

\* the scope read from the low byte of the first segment, flag bits included
Ipv6MulticastScopeWithFlags(v) ==
  LET scope == BitAnd(v[1], 255)
  IN IF ~Ipv6IsMulticast(v) THEN Null
     ELSE IF scope = 1 THEN ScopeOf("InterfaceLocal")
     ELSE IF scope = 2 THEN ScopeOf("LinkLocal")
     ELSE IF scope = 3 THEN ScopeOf("RealmLocal")
     ELSE IF scope = 4 THEN ScopeOf("AdminLocal")
     ELSE IF scope = 5 THEN ScopeOf("SiteLocal")
     ELSE IF scope = 8 THEN ScopeOf("OrganizationLocal")
     ELSE IF scope = 14 THEN ScopeOf("Global")
     ELSE Null

Ipv6MulticastScope(v) ==
  LET scope == BitAnd(v[1], 15)
  IN IF ~Ipv6IsMulticast(v) THEN Null
     ELSE IF scope = 1 THEN ScopeOf("InterfaceLocal")
     ELSE IF scope = 2 THEN ScopeOf("LinkLocal")
     ELSE IF scope = 3 THEN ScopeOf("RealmLocal")
     ELSE IF scope = 4 THEN ScopeOf("AdminLocal")
     ELSE IF scope = 5 THEN ScopeOf("SiteLocal")
     ELSE IF scope = 8 THEN ScopeOf("OrganizationLocal")
     ELSE IF scope = 14 THEN ScopeOf("Global")
     ELSE Null

\* multicast addresses of every scope nibble, with and without flag bits, and
\* addresses just below ff00::/8
MulticastAddrs ==
  {<<a, 0, 0, 0, 0, 0, 0, h>> :
     a \in (65280..65295) \cup (65296..65311) \cup (65520..65535) \cup (65264..65279),
     h \in {1, 2}}

InitClass ==
  /\ cur \in ClassV4Addrs \cup ClassV6Addrs \cup MulticastAddrs
  /\ op = "none"
  /\ ret = Null
  /\ arg = Null
  /\ num = IntZero
  /\ numOf = Null
  /\ steps = 0
  /\ input = <<>>
  /\ stop = 0
  /\ NoObjectsInit

\* one call on the held address; the caller keeps the address
Ask(name, result) ==
  /\ op = "none"
  /\ op' = name
  /\ arg' = cur
  /\ ret' = result
  /\ UNCHANGED <<cur, num, numOf, steps, NoText>>
  /\ UNCHANGED NoObjects

CallIpv4IsGlobal == IsV4(cur) /\ Ask("isGlobal", Ipv4IsGlobal(cur))

CallIpv6IsGlobal == IsV6(cur) /\ Ask("isGlobal", Ipv6IsGlobal(cur))

\* Ipv6Addr.tryFromDataView(new DataView(cur.octets().buffer)); input holds
\* the bytes of the view
CallTryFromDataView ==
  /\ op = "none"
  /\ op' = "tryFromDataView"
  /\ arg' = cur
  /\ input' = IF IsV6(cur) THEN Ipv6Octets(cur) ELSE cur
  /\ ret' = Ipv6TryFromDataView(input')
  /\ UNCHANGED <<cur, num, numOf, steps, stop>>
  /\ UNCHANGED NoObjects

CallToIpv4 == IsV6(cur) /\ Ask("toIpv4", Ipv6ToIpv4(cur))

CallToIpv4Mapped == IsV6(cur) /\ Ask("toIpv4Mapped", Ipv6ToIpv4Mapped(cur))

CallToIpv6Compatible == IsV4(cur) /\ Ask("toIpv6Compatible", Ipv4ToIpv6Compatible(cur))

CallToIpv6Mapped == IsV4(cur) /\ Ask("toIpv6Mapped", Ipv4ToIpv6Mapped(cur))

\* toIpv4Mapped() on the address that toIpv6Mapped() or toIpv6Compatible()
\* returned
CallMappedBack ==
  /\ op \in {"toIpv6Mapped", "toIpv6Compatible"}
  /\ op' = IF op = "toIpv6Mapped" THEN "toIpv6Mapped.toIpv4Mapped"
           ELSE "toIpv6Compatible.toIpv4Mapped"
  /\ ret' = Ipv6ToIpv4Mapped(ret)
  /\ UNCHANGED <<cur, arg, num, numOf, steps, NoText>>
  /\ UNCHANGED NoObjects

\* new IpAddr(cur).equals(new IpAddr(other)); arg holds other
CallIpAddrEquals ==
  /\ op = "none"
  /\ \E other \in {cur, Ipv4LOCALHOST, Ipv6LOCALHOST} :
       /\ arg' = other
       /\ ret' = IpAddrEquals(IpAddr(cur), IpAddr(other))
  /\ op' = "IpAddr.equals"
  /\ UNCHANGED <<cur, num, numOf, steps, NoText>>
  /\ UNCHANGED NoObjects

CallMulticastScope == IsV6(cur) /\ Ask("multicastScope", Ipv6MulticastScope(cur))

\* the ten range predicates of Ipv4Addr asked of one address, in the order
\* isUnspecified, isPrivate, isShared, isLoopback, isLinkLocal,
\* isDocumentation, isBenchmarking, isMulticast, isReserved, isBroadcast
CallIpv4Ranges ==
  /\ IsV4(cur)
  /\ Ask("Ipv4Addr ranges",
         <<Ipv4IsUnspecified(cur), Ipv4IsPrivate(cur), Ipv4IsShared(cur),
           Ipv4IsLoopback(cur), Ipv4IsLinkLocal(cur), Ipv4IsDocumentation(cur),
           Ipv4IsBenchmarking(cur), Ipv4IsMulticast(cur), Ipv4IsReserved(cur),
           Ipv4IsBroadcast(cur)>>)

\* isGlobal(), isUnicast() and isUnicastGlobal() asked of one address
CallIpv6GlobalUnicast ==
  /\ IsV6(cur)
  /\ Ask("Ipv6Addr global unicast",
         <<Ipv6IsGlobal(cur), Ipv6IsUnicast(cur), Ipv6IsUnicastGlobal(cur)>>)

NextClass ==
  \/ CallMulticastScope
  \/ CallIpv4Ranges
  \/ CallIpv6GlobalUnicast
  \/ CallIpv4IsGlobal
  \/ CallIpv6IsGlobal
  \/ CallTryFromDataView
  \/ CallToIpv4
  \/ CallToIpv4Mapped
  \/ CallToIpv6Compatible
  \/ CallToIpv6Mapped
  \/ CallMappedBack
  \/ CallIpAddrEquals

SpecClass == InitClass /\ [][NextClass]_vars

(***************************************************************************)
(* Claims about the classification of addresses                            *)
(***************************************************************************)
Between(x, lo, hi) == lo <= x /\ x <= hi

\* the IPv4 special-purpose ranges, written as ranges of octets
V4OutsideGlobal(v) ==
  \/ v[1] = 0
  \/ v[1] = 10
  \/ (v[1] = 172 /\ Between(v[2], 16, 31))
  \/ (v[1] = 192 /\ v[2] = 168)
  \/ (v[1] = 100 /\ Between(v[2], 64, 127))
  \/ v[1] = 127
  \/ (v[1] = 169 /\ v[2] = 254)
  \/ (v[1] = 192 /\ v[2] = 0 /\ v[3] = 0 /\ v[4] \notin {9, 10})
  \/ (v[1] = 192 /\ v[2] = 0 /\ v[3] = 2)
  \/ (v[1] = 198 /\ v[2] = 51 /\ v[3] = 100)
  \/ (v[1] = 203 /\ v[2] = 0 /\ v[3] = 113)
  \/ (v[1] = 198 /\ v[2] \in {18, 19})
  \/ v[1] >= 240

\* C11: an IPv4 address is global exactly when it lies in none of the
\* special-purpose ranges: 0/8, the private ranges, 100.64/10, 127/8,
\* 169.254/16, 192.0.0/24 other than .9 and .10, the documentation ranges,
\* 198.18/15, 240/4 and the broadcast address.
C11_Ipv4GlobalTable ==
  (op = "isGlobal" /\ IsV4(arg)) => (ret = ~V4OutsideGlobal(arg))

C11_Witness ==
  /\ op = "isGlobal"
  /\ arg \in {<<192, 0, 0, 9>>, <<192, 0, 0, 10>>}
  /\ ret = TRUE

\* the IPv6 special-purpose ranges, written as ranges of segments
V6OutsideGlobal(v) ==
  \/ v = <<0, 0, 0, 0, 0, 0, 0, 0>>
  \/ v = <<0, 0, 0, 0, 0, 0, 0, 1>>
  \/ ((\A i \in 1..5 : v[i] = 0) /\ v[6] = 65535)
  \/ (v[1] = 100 /\ v[2] = 65435 /\ v[3] = 1)
  \/ (v[1] = 256 /\ v[2] = 0 /\ v[3] = 0 /\ v[4] = 0)
  \/ /\ v[1] = 8193
     /\ v[2] < 512
     /\ v \notin {<<8193, 1, 0, 0, 0, 0, 0, 1>>, <<8193, 1, 0, 0, 0, 0, 0, 2>>}
     /\ v[2] # 3
     /\ ~(v[2] = 4 /\ v[3] = 274)
     /\ ~Between(v[2], 16, 63)
  \/ v[1] = 8194
  \/ (v[1] = 8193 /\ v[2] = 3512)
  \/ Between(v[1], 64512, 65023)
  \/ Between(v[1], 65152, 65215)

\* C12: an IPv6 address is outside the global range exactly when it is :: or
\* ::1, IPv4-mapped, in 64:ff9b:1::/48, in 100::/64, in 2001::/23 without
\* being 2001:1::1, 2001:1::2, in 2001:3::/32, in 2001:4:112::/48 or in
\* 2001:10::/28 up to 2001:3f::, in 2002::/16, in 2001:db8::/32, in fc00::/7
\* or in fe80::/10; every other address is global.
C12_Ipv6GlobalTable ==
  (op = "isGlobal" /\ IsV6(arg)) => (ret = ~V6OutsideGlobal(arg))

C12_Witness ==
  /\ op = "isGlobal"
  /\ arg = <<8193, 1, 0, 0, 0, 0, 0, 1>>
  /\ ret = TRUE

(***************************************************************************)
(* iter.ts: Ipv4AddrIterator and Ipv6AddrIterator                          *)
(***************************************************************************)
\* x < y on numbers and on bigints
MagLess(m, n) ==
  \/ Len(m) < Len(n)
  \/ /\ Len(m) = Len(n)
     /\ \E k \in 1..Len(m) : m[k] < n[k] /\ \A j \in (k + 1)..Len(m) : m[j] = n[j]

IntLess(x, y) ==
  IF x.neg # y.neg THEN x.neg
  ELSE IF x.neg THEN MagLess(y.mag, x.mag)
  ELSE MagLess(x.mag, y.mag)

\* an iterator constructed with its two arguments exchanged
Ipv4AddrIteratorSwapped(start, end) ==
  [family |-> "v4", curr |-> Ipv4ToUint32(end), end |-> Ipv4ToUint32(start)]

\* new Ipv4AddrIterator(start, end) and new Ipv6AddrIterator(start, end)
Ipv4AddrIterator(start, end) ==
  [family |-> "v4", curr |-> Ipv4ToUint32(start), end |-> Ipv4ToUint32(end)]

Ipv6AddrIterator(start, end) ==
  [family |-> "v6", curr |-> Ipv6ToUint128(start), end |-> Ipv6ToUint128(end)]

\* a test that lets the end itself through
IterHasNextInclusive(it) == ~IntLess(it.end, it.curr)

\* the test of next(): curr < end
IterHasNext(it) == IntLess(it.curr, it.end)

\* an iterator that starts over from zero once it is exhausted
IterRewound(it) == [it EXCEPT !.curr = IntZero]

\* the fields after an exhausted next(): nothing is assigned
IterWhenDone(it) == it

\* next(): the result and the iterator's fields after the call
Ipv4IterNext(it) ==
  IF IterHasNext(it)
  THEN [result |-> [value |-> Ipv4TryFromUint32(it.curr), done |-> FALSE],
        after |-> [it EXCEPT !.curr = IntAdd1(it.curr)]]
  ELSE [result |-> [value |-> Null, done |-> TRUE], after |-> IterWhenDone(it)]

Ipv6IterNext(it) ==
  IF IterHasNext(it)
  THEN [result |-> [value |-> Ipv6TryFromUint128(it.curr), done |-> FALSE],
        after |-> [it EXCEPT !.curr = IntAdd1(it.curr)]]
  ELSE [result |-> [value |-> Null, done |-> TRUE], after |-> IterWhenDone(it)]

(***************************************************************************)
(* The iterator specification: a caller constructs an iterator from a      *)
(* start address (cur) and an end address (arg) and calls next() on it.    *)
(***************************************************************************)
\* most next() calls on one iterator
MaxCalls == 4

\* addresses around a carry into the next octet or segment, and both ends of
\* the address space
IterV4Addrs ==
  {<<0, 0, 0, 0>>, <<0, 0, 0, 254>>, <<0, 0, 0, 255>>, <<0, 0, 1, 0>>, <<0, 0, 1, 1>>,
   <<255, 255, 255, 254>>, <<255, 255, 255, 255>>}

IterV6Addrs ==
  {<<0, 0, 0, 0, 0, 0, 0, 0>>, <<0, 0, 0, 0, 0, 0, 0, 65534>>,
   <<0, 0, 0, 0, 0, 0, 0, 65535>>, <<0, 0, 0, 0, 0, 0, 1, 0>>,
   <<0, 0, 0, 0, 0, 0, 1, 1>>,
   <<65535, 65535, 65535, 65535, 65535, 65535, 65535, 65534>>,
   <<65535, 65535, 65535, 65535, 65535, 65535, 65535, 65535>>}

NoIterUse == <<input, stop, num, numOf, steps, heap, held, view, built, thrown>>

InitIter ==
  /\ \/ /\ cur \in IterV4Addrs
        /\ arg \in IterV4Addrs
        /\ iter = Ipv4AddrIterator(cur, arg)
     \/ /\ cur \in IterV6Addrs
        /\ arg \in IterV6Addrs
        /\ iter = Ipv6AddrIterator(cur, arg)
  /\ results = <<>>
  /\ op = "none"
  /\ ret = Null
  /\ input = <<>>
  /\ stop = 0
  /\ num = IntZero
  /\ numOf = Null
  /\ steps = 0
  /\ heap = <<>>
  /\ held = ""
  /\ view = ""
  /\ built = Null
  /\ thrown = ""

\* iter.next()
IterStep(step) ==
  /\ Len(results) < MaxCalls
  /\ op' = "next"
  /\ results' = Append(results, step.result)
  /\ ret' = step.result.value
  /\ iter' = step.after
  /\ UNCHANGED <<cur, arg, NoIterUse>>

CallIpv4IterNext == iter.family = "v4" /\ IterStep(Ipv4IterNext(iter))

CallIpv6IterNext == iter.family = "v6" /\ IterStep(Ipv6IterNext(iter))

\* iter[Symbol.iterator](), as a for-of loop calls it: the caller goes on
\* with the object it returns, which is the iterator itself
CallSymbolIterator ==
  /\ op # "[Symbol.iterator]"
  /\ op' = "[Symbol.iterator]"
  /\ ret' = Null
  /\ iter' = iter
  /\ UNCHANGED <<cur, arg, results, NoIterUse>>

NextIter ==
  \/ CallIpv4IterNext
  \/ CallIpv6IterNext
  \/ CallSymbolIterator

SpecIter == InitIter /\ [][NextIter]_vars

(***************************************************************************)
(* Claims about the iterators                                              *)
(***************************************************************************)
\* v comes before w in the order of the integer forms
AddrLess(v, w) ==
  \E k \in 1..Len(v) : v[k] < w[k] /\ \A j \in 1..(k - 1) : v[j] = w[j]

Yielded(i) == ~results[i].done

\* C13: an iterator constructed from A and B with A <= B yields A first,
\* then each time the address one above the one before (carrying into the
\* next octet or segment), never B, and reports done exactly when the next
\* address would be B: at once when A = B, else right after B's predecessor.
C13_HalfOpenRange ==
  (iter # Null /\ ~AddrLess(arg, cur)) =>
    \A i \in 1..Len(results) :
      /\ Yielded(i) =>
           /\ results[i].value # arg
           /\ AddrLess(results[i].value, arg)
           /\ IF i = 1 THEN results[i].value = cur
              ELSE /\ Yielded(i - 1)
                   /\ IsSuccessor(results[i - 1].value, results[i].value, Largest(cur))
      /\ ~Yielded(i) =>
           IF i = 1 THEN cur = arg
           ELSE Yielded(i - 1) => IsSuccessor(results[i - 1].value, arg, Largest(cur))

C13_Witness ==
  /\ iter # Null
  /\ cur = <<0, 0, 0, 254>>
  /\ arg = <<0, 0, 1, 1>>
  /\ Len(results) = 4
  /\ results[3] = [value |-> <<0, 0, 1, 0>>, done |-> FALSE]
  /\ results[4] = [value |-> Null, done |-> TRUE]

\* C14: once next() has returned {value: null, done: true}, every later
\* next() on the same iterator returns it again, also after the iterator was
\* asked for its Symbol.iterator.
C14_ExhaustionIsPermanent ==
  iter # Null =>
    \A i \in 1..Len(results) : \A j \in i..Len(results) :
      results[i].done => results[j] = [value |-> Null, done |-> TRUE]

C14_Witness ==
  /\ iter # Null
  /\ AddrLess(cur, arg)
  /\ op = "[Symbol.iterator]"
  /\ Len(results) = MaxCalls
  /\ results[Len(results) - 1].done
  /\ results[Len(results)].done

(***************************************************************************)
(* The buffer specification: typed arrays live on a heap and are held by   *)
(* reference.  A caller owns a Uint8Array and a Uint16Array, constructs    *)
(* one address from either, asks addresses for their octets() or           *)
(* segments(), and writes into the arrays it has.                          *)
(***************************************************************************)
\* most element writes a caller makes
MaxWrites == 2

WriteVals == {0, 9}

Refs ==
  {"arr8", "arr16", "fresh",
   "Ipv4Addr.BROADCAST", "Ipv4Addr.LOCALHOST", "Ipv4Addr.UNSPECIFIED",
   "Ipv6Addr.LOCALHOST", "Ipv6Addr.UNSPECIFIED"}

\* the buffers of the static instances, as the class initialisers make them
StaticBuffers ==
  [r \in {"Ipv4Addr.BROADCAST", "Ipv4Addr.LOCALHOST", "Ipv4Addr.UNSPECIFIED",
          "Ipv6Addr.LOCALHOST", "Ipv6Addr.UNSPECIFIED"} |->
     CASE r = "Ipv4Addr.BROADCAST" -> Ipv4BROADCAST
       [] r = "Ipv4Addr.LOCALHOST" -> Ipv4LOCALHOST
       [] r = "Ipv4Addr.UNSPECIFIED" -> Ipv4UNSPECIFIED
       [] r = "Ipv6Addr.LOCALHOST" -> Ipv6LOCALHOST
       [] r = "Ipv6Addr.UNSPECIFIED" -> Ipv6UNSPECIFIED]

NoHeapUse == <<input, stop, cur, arg, num, numOf, iter, results, thrown>>

InitHeap ==
  /\ \E a8 \in {<<127, 0, 0, 1>>, <<255, 255, 255, 255>>, <<1, 2, 3>>},
        a16 \in {<<0, 0, 0, 0, 0, 0, 0, 1>>, <<8193, 3512, 0, 0, 0, 0, 0, 258>>} :
       heap = [r \in Refs |->
                 IF r = "arr8" THEN a8
                 ELSE IF r = "arr16" THEN a16
                 ELSE IF r = "fresh" THEN <<>>
                 ELSE StaticBuffers[r]]
  /\ held = ""
  /\ view = ""
  /\ built = Null
  /\ thrown = ""
  /\ op = "none"
  /\ ret = Null
  /\ steps = 0
  /\ input = <<>>
  /\ stop = 0
  /\ cur = Null
  /\ arg = Null
  /\ num = IntZero
  /\ numOf = Null
  /\ iter = Null
  /\ results = <<>>

\* v = Ipv4Addr.tryFromUint8Array(arr8): the new object keeps arr8 itself
CallTryFromUint8Array ==
  /\ held = ""
  /\ op' = "tryFromUint8Array"
  /\ ret' = tryFromUint8Array(heap["arr8"])
  /\ held' = IF tryFromUint8Array(heap["arr8"]) # Null THEN "arr8" ELSE held
  /\ built' = tryFromUint8Array(heap["arr8"])
  /\ UNCHANGED <<heap, view, steps, NoHeapUse>>

\* v = Ipv6Addr.tryFromUint16Array(arr16): the new object keeps arr16 itself
CallTryFromUint16Array ==
  /\ held = ""
  /\ op' = "tryFromUint16Array"
  /\ ret' = tryFromUint16Array(heap["arr16"])
  /\ held' = IF tryFromUint16Array(heap["arr16"]) # Null THEN "arr16" ELSE held
  /\ built' = tryFromUint16Array(heap["arr16"])
  /\ UNCHANGED <<heap, view, steps, NoHeapUse>>

\* v.octets(): an Ipv4Addr returns its buffer, an Ipv6Addr a new array
CallOctets ==
  /\ held # ""
  /\ op' = "octets"
  /\ IF held = "arr8"
     THEN /\ view' = held
          /\ heap' = heap
     ELSE /\ view' = "fresh"
          /\ heap' = [heap EXCEPT !["fresh"] = Ipv6Octets(heap[held])]
  /\ ret' = heap'[view']
  /\ UNCHANGED <<held, built, steps, NoHeapUse>>

\* v.segments(): an Ipv6Addr returns its buffer
CallSegments ==
  /\ held = "arr16"
  /\ op' = "segments"
  /\ view' = held
  /\ ret' = heap[held]
  /\ UNCHANGED <<heap, held, built, steps, NoHeapUse>>

\* Ipv4Addr.BROADCAST.octets(), Ipv6Addr.LOCALHOST.segments() and the like
CallStaticBuffer ==
  /\ \E r \in DOMAIN StaticBuffers :
       /\ view' = r
       /\ ret' = heap[r]
  /\ view = ""
  /\ op' = "static"
  /\ UNCHANGED <<heap, held, built, steps, NoHeapUse>>

\* array[i] = x
Store(r, i, x) ==
  /\ steps < MaxWrites
  /\ steps' = steps + 1
  /\ op' = "write"
  /\ ret' = Null
  /\ heap' = [heap EXCEPT ![r][i] = x]
  /\ UNCHANGED <<held, view, built, NoHeapUse>>

\* the caller writes into its own array after handing it over
WriteOwnArray ==
  /\ held # ""
  /\ \E i \in {1, Len(heap[held])}, x \in WriteVals : Store(held, i, x)

\* the caller writes into an array that octets() or segments() returned
WriteReturnedArray ==
  /\ view # ""
  /\ \E i \in {1, Len(heap[view])}, x \in WriteVals : Store(view, i, x)

NextHeap ==
  \/ CallTryFromUint8Array
  \/ CallTryFromUint16Array
  \/ CallOctets
  \/ CallSegments
  \/ CallStaticBuffer
  \/ WriteOwnArray
  \/ WriteReturnedArray

SpecHeap == InitHeap /\ [][NextHeap]_vars

(***************************************************************************)
(* Claims about buffers                                                    *)
(***************************************************************************)
\* C15: whatever the caller writes, into the array it constructed an address
\* from or into an array that octets() or segments() returned, the address
\* keeps the octets or segments (and so the text and the integer form) it
\* was constructed with.
C15_BufferNeverAliased ==
  held # "" =>
    /\ heap[held] = built
    /\ (held = "arr8" => Ipv4ToString(heap[held]) = Ipv4ToString(built))

\* C16: the shared instances Ipv4Addr.LOCALHOST, BROADCAST, UNSPECIFIED and
\* Ipv6Addr.LOCALHOST, UNSPECIFIED denote 127.0.0.1, 255.255.255.255,
\* 0.0.0.0, ::1 and :: in every reachable state, so that the comparisons
\* against them never change their answer.
C16_SharedConstantsKeepValues ==
  heap # <<>> =>
    /\ heap["Ipv4Addr.LOCALHOST"] = <<127, 0, 0, 1>>
    /\ heap["Ipv4Addr.BROADCAST"] = <<255, 255, 255, 255>>
    /\ heap["Ipv4Addr.UNSPECIFIED"] = <<0, 0, 0, 0>>
    /\ heap["Ipv6Addr.LOCALHOST"] = <<0, 0, 0, 0, 0, 0, 0, 1>>
    /\ heap["Ipv6Addr.UNSPECIFIED"] = <<0, 0, 0, 0, 0, 0, 0, 0>>

(***************************************************************************)
(* Claims about conversions and the wrapper                                *)
(***************************************************************************)
\* C17: tryFromDataView on the 16 bytes y0..y15 returns the address whose
\* segment i is y(2i) * 256 + y(2i+1), so that decoding the bytes of
\* v.octets() gives v again.
C17_DataViewDecodesSegments ==
  (op = "tryFromDataView" /\ Len(input) = 16) =>
    /\ ret # Null
    /\ \A i \in 0..7 : ret[i + 1] = input[2 * i + 1] * 256 + input[2 * i + 2]
    /\ ret = arg

HasV4Tail(v) == (\A i \in 1..5 : v[i] = 0) /\ v[6] \in {0, 65535}

\* C18: toIpv4() returns the IPv4 address of the trailing 32 bits in order,
\* (s6 >> 8, s6 & 255, s7 >> 8, s7 & 255), when segments 0-4 are zero and
\* segment 5 is 0 or 0xffff, and null for every other address.
C18_ToIpv4TrailingBits ==
  op = "toIpv4" =>
    ret = IF HasV4Tail(arg)
          THEN <<arg[7] \div 256, arg[7] % 256, arg[8] \div 256, arg[8] % 256>>
          ELSE Null

HasMappedPrefix(v) == (\A i \in 1..5 : v[i] = 0) /\ v[6] = 65535

\* C19: toIpv6Mapped() of a.b.c.d is ::ffff:a.b.c.d, toIpv4Mapped() of that
\* is a.b.c.d again, and toIpv4Mapped() is null for every IPv6 address
\* without the ::ffff: prefix, IPv4-compatible ones included.
C19_MappedRoundTrip ==
  /\ op = "toIpv6Mapped" =>
       ret = <<0, 0, 0, 0, 0, 65535, arg[1] * 256 + arg[2], arg[3] * 256 + arg[4]>>
  /\ op = "toIpv6Mapped.toIpv4Mapped" => ret = arg
  /\ op = "toIpv6Compatible.toIpv4Mapped" => ret = Null
  /\ (op = "toIpv4Mapped" /\ ~HasMappedPrefix(arg)) => ret = Null
  /\ (op = "toIpv4Mapped" /\ HasMappedPrefix(arg)) =>
       ret = <<arg[7] \div 256, arg[7] % 256, arg[8] \div 256, arg[8] % 256>>

C19_Witness ==
  /\ op = "toIpv6Mapped.toIpv4Mapped"
  /\ arg = <<192, 0, 2, 255>>
  /\ ret = <<192, 0, 2, 255>>

\* C20: x.equals(y) on two IpAddr wrappers is true when they hold equal
\* addresses of the same family and false otherwise.
C20_IpAddrEqualsComparesHeld ==
  op = "IpAddr.equals" => (ret = (cur = arg))

(***************************************************************************)
(* How a call ends: it returns a value (null included) or raises an        *)
(* exception with a message.                                               *)
(***************************************************************************)
Returned(value) == [thrown |-> "", value |-> value]

Raised(message) == [thrown |-> message, value |-> Null]

(***************************************************************************)
(* socket.ts: Port.parse                                                   *)
(***************************************************************************)
\* the white space Number.parseInt skips: tab, line feed, vertical tab, form
\* feed, carriage return and space
StrWhiteSpace == {9, 10, 11, 12, 13, 32}

RECURSIVE trimStart(_)
trimStart(s) ==
  IF s # <<>> /\ s[1] \in StrWhiteSpace THEN trimStart(Tail(s)) ELSE s

RECURSIVE digitPrefix(_)
digitPrefix(s) ==
  IF s # <<>> /\ isAsciiDigit(s[1]) THEN <<s[1]>> \o digitPrefix(Tail(s)) ELSE <<>>

\* Number.parseInt(s, 10) on any text: white space, an optional sign, then
\* the longest run of digits; whatever follows the run is ignored.  (The
\* texts a caller holds here never denote -1 or -2, the numbers that stand
\* for NaN and undefined.)
NumberParseInt(s) ==
  LET t == trimStart(s)
      signed == t # <<>> /\ t[1] \in {43, 45}
      negative == t # <<>> /\ t[1] = 45
      digits == digitPrefix(IF signed THEN Tail(t) ELSE t)
  IN  IF digits = <<>> THEN NaN
      ELSE IF negative THEN 0 - parseInt(digits)
      ELSE parseInt(digits)

PortParse(s) == PortTryNew(NumberParseInt(s))

(***************************************************************************)
(* socket.ts: SocketAddrV6                                                 *)
(***************************************************************************)
\* a parse that reports every text as malformed
SocketAddrV6ParseAsNull(s) == Returned(Null)

SocketAddrV6Parse(s) == Raised("Not implemented yet")

(***************************************************************************)
(* The construction specification: a caller holds a raw argument, a text   *)
(* or an array of numbers (input) or one integer (num), and hands it to    *)
(* one parse method or factory.                                            *)
(***************************************************************************)
\* "", "80", "65535", "65536", "80a", "-5", "1.5", " 80", "abc", "0.0.0.0",
\* "0.0.0.0:80", "1.2.3", "256.0.0.1", "1.2.3.4.", "[::1]:80"
MakeTexts ==
  {<<>>, <<56, 48>>, <<54, 53, 53, 51, 53>>, <<54, 53, 53, 51, 54>>, <<56, 48, 97>>,
   <<45, 53>>, <<49, Dot, 53>>, <<32, 56, 48>>, <<97, 98, 99>>,
   <<48, Dot, 48, Dot, 48, Dot, 48>>,
   <<48, Dot, 48, Dot, 48, Dot, 48, Colon, 56, 48>>,
   <<49, Dot, 50, Dot, 51>>,
   <<50, 53, 54, Dot, 48, Dot, 48, Dot, 49>>,
   <<49, Dot, 50, Dot, 51, Dot, 52, Dot>>,
   <<91, Colon, Colon, 49, 93, Colon, 56, 48>>,
   <<Dot, Dot, Dot>>, <<48, Dot, 48, Dot, 48, Dot>>, <<Dot>>,
   <<49, 50, 55, Dot, 48, Dot, 48, Dot, 49>>, <<49, Dot, 50, Dot, 51, Dot, 52, Colon>>,
   <<49, Dot, 50, Dot, 51, Dot, 52, Colon, 54, 53, 53, 51, 53>>, <<49, Dot, 50, Dot, 51, Dot, 52, Colon, 57, 57, 57, 57, 57>>,
   <<49, Dot, 50, Dot, 51, Dot, 52, Colon, 56, 120>>, <<49, 50, 51, 52, Dot, 49, Dot, 49, Dot, 49>>}

\* the digit of value d < 36 as Number.prototype.toString writes it
DigitChar(d) == IF d < 10 THEN Digit0 + d ELSE 97 + (d - 10)

\* n.toString(radix) for an integer 0 <= n < 2^31
RECURSIVE NumberToStringRadix(_, _)
NumberToStringRadix(n, radix) ==
  IF n < radix THEN <<DigitChar(n)>>
  ELSE Append(NumberToStringRadix(n \div radix, radix), DigitChar(n % radix))

\* n.toString() for an integer 0 <= n < 2^32 given as hi * 65536 + lo
RECURSIVE Uint32ToString(_, _)
Uint32ToString(hi, lo) ==
  LET low == (hi % 10) * 65536 + lo
  IN  IF hi = 0 THEN NumberToString(lo)
      ELSE Append(Uint32ToString(hi \div 10, low \div 10), DigitChar(low % 10))

\* the base-256 digit i of a magnitude, 0 past its end
MagDigit(mag, i) == IF i < Len(mag) THEN mag[i + 1] ELSE 0

\* template-literal conversion of a flow info or scope id that is a uint32
Uint32Text(n) ==
  Uint32ToString(MagDigit(n.mag, 3) * 256 + MagDigit(n.mag, 2),
                 MagDigit(n.mag, 1) * 256 + MagDigit(n.mag, 0))

\* the text unpadded
padStartNone(s, targetLength, fill) == s

\* String.prototype.padStart with a one-character fill
RECURSIVE padStart(_, _, _)
padStart(s, targetLength, fill) ==
  IF Len(s) >= targetLength THEN s ELSE padStart(<<fill>> \o s, targetLength, fill)

\* Array.prototype.join
RECURSIVE join(_, _)
join(parts, sep) ==
  IF parts = <<>> THEN <<>>
  ELSE IF Len(parts) = 1 THEN parts[1]
  ELSE parts[1] \o sep \o join(Tail(parts), sep)

Ipv6ToString(v) ==
  join([i \in 1..Len(v) |-> padStart(NumberToStringRadix(v[i], 16), 4, Digit0)], <<Colon>>)

PortToString(value) == NumberToString(value)

\* SocketAddrV6.toString of the socket <<addr, port.value, flowInfo, scopeId>>
SocketAddrV6ToString(sock) ==
  IF sock[4] = IntZero
  THEN <<91>> \o Ipv6ToString(sock[1]) \o <<93, Colon>> \o PortToString(sock[2])
  ELSE <<91>> \o Ipv6ToString(sock[1]) \o <<37>> \o Uint32Text(sock[4])
         \o <<93, Colon>> \o PortToString(sock[2])

\* port arguments: 0, 80, 3000, 65535, 65536, -1, NaN, Infinity and 80.5
PortArgs ==
  {IntZero, IntOf(80), IntOf(3000), IntOf(65535), IntAdd1(IntOf(65535)),
   IntSub1(IntZero), NumberNaN, NumberInfinity(FALSE), NumberAndAHalf(IntOf(80))}

\* socket addresses: ::1, :: and 2001:db8::abcd:ff
SocketV6Addrs ==
  {Ipv6LOCALHOST, Ipv6UNSPECIFIED, <<8193, 3512, 0, 0, 0, 0, 43981, 255>>}

Uint32Max == MkInt(FALSE, <<255, 255, 255, 255>>)

\* flow-info and scope-id arguments: 0, 1, 2^32 - 1, 2^32, -1, NaN, both
\* infinities and 1.5
Uint32Args ==
  {IntZero, IntOf(1), Uint32Max, IntAdd1(Uint32Max), IntSub1(IntZero),
   NumberNaN, NumberInfinity(FALSE), NumberInfinity(TRUE), NumberAndAHalf(IntOf(1))}

(***************************************************************************)
(* Where a call can throw: codePointAt on an undefined character, and a    *)
(* DataView read past the end of the view                                  *)
(***************************************************************************)
\* value.codePointAt(0) in isCodePointBetween throws when value is undefined
codePointAtThrows(value) == value = Undefined

\* the scanning loop entered without the test idx < s.length
RECURSIVE takeLoopThrowsUnguarded(_, _, _, _)
takeLoopThrowsUnguarded(s, taken, idx, atMost) ==
  IF Len(taken) < atMost
  THEN IF codePointAtThrows(CharAt(s, idx)) THEN TRUE
       ELSE IF isAsciiDigit(CharAt(s, idx))
            THEN takeLoopThrowsUnguarded(s, Append(taken, CharAt(s, idx)), idx + 1, atMost)
            ELSE FALSE
  ELSE FALSE

\* whether the scanning loop of takeAsciiDigits throws: isAsciiDigit(s[idx])
\* is evaluated only after idx < s.length and taken.length < atMost
RECURSIVE takeLoopThrows(_, _, _, _)
takeLoopThrows(s, taken, idx, atMost) ==
  IF idx < Len(s) /\ Len(taken) < atMost
  THEN IF codePointAtThrows(CharAt(s, idx)) THEN TRUE
       ELSE IF isAsciiDigit(CharAt(s, idx))
            THEN takeLoopThrows(s, Append(taken, CharAt(s, idx)), idx + 1, atMost)
            ELSE FALSE
  ELSE FALSE

\* whether the while loop of parseIpv4Addr throws, from the state (seenDots, idx)
RECURSIVE parseIpv4LoopThrows(_, _, _)
parseIpv4LoopThrows(s, seenDots, idx) ==
  IF seenDots <= 3
  THEN IF takeLoopThrows(s, <<>>, idx, 3) THEN TRUE
       ELSE LET t == takeAsciiDigits(s, idx, 1, 3)
                newIdx == t[2]
                octetNumber == parseInt(t[1])
            IN IF octetRejected(octetNumber) THEN FALSE
               ELSE IF dotExpected(seenDots)
                    THEN IF CharAt(s, newIdx) # Dot THEN FALSE
                         ELSE parseIpv4LoopThrows(s, seenDots + 1, newIdx + 1)
                    ELSE parseIpv4LoopThrows(s, seenDots + 1, newIdx)
  ELSE FALSE

parseIpv4AddrThrows(s) == parseIpv4LoopThrows(s, 0, 0)

parseSocketAddrV4Throws(s) ==
  LET r == parseIpv4Addr(s)
  IN IF parseIpv4AddrThrows(s) THEN TRUE
     ELSE IF r[1] = Null THEN FALSE
     ELSE IF CharAt(s, r[2]) # Colon THEN FALSE
     ELSE takeLoopThrows(s, <<>>, r[2] + 1, 5)

\* the outcome of Ipv4Addr.parse(s)
Ipv4AddrParseCall(s) ==
  IF parseIpv4AddrThrows(s) THEN Raised("TypeError") ELSE Returned(Ipv4AddrParse(s))

\* the outcome of SocketAddrV4.parse(s)
SocketAddrV4ParseCall(s) ==
  IF parseSocketAddrV4Throws(s) THEN Raised("TypeError")
  ELSE Returned(SocketAddrV4Parse(s))

\* view.getUint8(byteOffset) and view.getUint16(byteOffset) throw a
\* RangeError when the read ends past the view
getUint8Throws(bytes, byteOffset) == byteOffset + 1 > Len(bytes)

getUint16Throws(bytes, byteOffset) == byteOffset + 2 > Len(bytes)

getUint8(bytes, byteOffset) == bytes[byteOffset + 1]

(***************************************************************************)
(* The factories on numbers that need not be integers                      *)
(***************************************************************************)
\* n <= max for an integer max >= 0
NumberLe(n, max) ==
  IF NumberIsInteger(n) THEN n.neg \/ ~MagLess(max.mag, n.mag)
  ELSE IF n.kind = "NaN" THEN FALSE
  ELSE IF n.kind = "Infinity" THEN n.neg
  ELSE n.neg \/ MagLess(n.mag, max.mag)

\* isValidUint8 (isUint8 in v4/ipv4.ts) on any number
isValidUint8Number(n) == NumberGeZero(n) /\ NumberLe(n, IntOf(255)) /\ NumberIsInteger(n)

\* isValidUint16 on any number
isValidUint16Number(n) == NumberGeZero(n) /\ NumberLe(n, IntOf(65535)) /\ NumberIsInteger(n)

\* a store of a number into a Uint8Array or a Uint16Array element
StoreUint8(n) == IF NumberIsInteger(n) /\ ~n.neg THEN MagDigit(n.mag, 0) ELSE 0

StoreUint16(n) ==
  IF NumberIsInteger(n) /\ ~n.neg THEN MagDigit(n.mag, 1) * 256 + MagDigit(n.mag, 0) ELSE 0

\* Ipv4Addr.tryNew
Ipv4TryNewNumbers(a, b, c, d) ==
  IF \/ ~isValidUint8Number(a) \/ ~isValidUint8Number(b)
     \/ ~isValidUint8Number(c) \/ ~isValidUint8Number(d)
  THEN Null
  ELSE <<StoreUint8(a), StoreUint8(b), StoreUint8(c), StoreUint8(d)>>

Ipv4TryFromArray(array) ==
  IF Len(array) # 4 THEN Null
  ELSE Ipv4TryNewNumbers(array[1], array[2], array[3], array[4])

Ipv4TryFromUint8ClampedArray(array) ==
  IF Len(array) # 4 THEN Null
  ELSE <<ToUint8(array[1]), ToUint8(array[2]), ToUint8(array[3]), ToUint8(array[4])>>

\* the outcome of Ipv4Addr.tryFromDataView on a view over these bytes
Ipv4TryFromDataViewCall(bytes) ==
  IF Len(bytes) # 4 THEN Returned(Null)
  ELSE IF \E byteOffset \in 0..3 : getUint8Throws(bytes, byteOffset)
       THEN Raised("RangeError")
       ELSE Returned(<<ToUint8(getUint8(bytes, 0)), ToUint8(getUint8(bytes, 1)),
                       ToUint8(getUint8(bytes, 2)), ToUint8(getUint8(bytes, 3))>>)

\* Ipv6Addr.tryNew on a list of eight numbers
Ipv6TryNew(s) ==
  IF \E i \in 1..8 : ~isValidUint16Number(s[i]) THEN Null
  ELSE [i \in 1..8 |-> StoreUint16(s[i])]

Ipv6TryFromArray(array) ==
  IF Len(array) # 8 THEN Null ELSE Ipv6TryNew(array)

\* the outcome of Ipv6Addr.tryFromDataView on a view over these bytes
Ipv6TryFromDataViewCall(bytes) ==
  IF Len(bytes) # 16 THEN Returned(Null)
  ELSE IF \E byteOffset \in 0..7 : getUint16Throws(bytes, byteOffset)
       THEN Raised("RangeError")
       ELSE Returned(Ipv6TryFromDataView(bytes))

\* Port.tryNew on any number
PortTryNewNumber(value) ==
  IF ~isValidUint16Number(value) THEN Null ELSE <<StoreUint16(value)>>

\* SocketAddrV4.tryNew on any number
SocketAddrV4TryNewNumber(addr, portNum) ==
  LET port == PortTryNewNumber(portNum)
  IN IF port = Null THEN Null ELSE <<addr, port[1]>>

\* a SocketAddrV6 is <<addr, port.value, flowInfo, scopeId>>
SocketAddrV6TryNew(addr, portNum, flowInfo, scopeId) ==
  LET port == PortTryNewNumber(portNum)
  IN  IF port = Null \/ ~isValidUint32(flowInfo) \/ ~isValidUint32(scopeId)
      THEN Null
      ELSE <<addr, port[1], flowInfo, scopeId>>

\* number arguments: 0, 1, 255, 256, 65535, 65536, -1, NaN, both infinities
\* and 1.5
NumberArgs ==
  {IntZero, IntOf(1), IntOf(255), IntOf(256), IntOf(65535), IntAdd1(IntOf(65535)),
   IntSub1(IntZero), NumberNaN, NumberInfinity(FALSE), NumberInfinity(TRUE),
   NumberAndAHalf(IntOf(1))}

\* bigint arguments: 0, 1, 2^128 - 1, 2^128 and -1
Uint128Max == MkInt(FALSE, [i \in 1..16 |-> 255])

BigIntArgs == {IntZero, IntOf(1), Uint128Max, IntAdd1(Uint128Max), IntSub1(IntZero)}

\* the lengths of the arrays and views handed to the factories
ArrayLens == {0, 3, 4, 5, 7, 8, 9, 15, 16, 17}

\* arrays of numbers: one varying number followed by fixed ones
NumberArrays ==
  {[i \in 1..n |-> IF i = 1 THEN a ELSE IntOf(i)] : n \in {3, 4, 5, 7, 8, 9}, a \in NumberArgs}
    \cup {<<>>}

\* the contents of typed arrays and views of bytes
ByteArrays ==
  {[i \in 1..n |-> b] : n \in ArrayLens, b \in {0, 127, 255}}
    \cup {[i \in 1..n |-> i] : n \in ArrayLens}

\* the contents of Uint16Arrays
Uint16Arrays ==
  {[i \in 1..n |-> w] : n \in {0, 7, 8, 9}, w \in {0, 258, 65535}}

InitMake ==
  /\ input \in MakeTexts
  /\ num = IntZero
  /\ op = "none"
  /\ ret = Null
  /\ stop = 0
  /\ cur = Null
  /\ arg = Null
  /\ numOf = Null
  /\ steps = 0
  /\ NoObjectsInit

\* one call on the held argument
Make(name, outcome) ==
  /\ op = "none"
  /\ op' = name
  /\ ret' = outcome.value
  /\ thrown' = outcome.thrown
  /\ UNCHANGED <<input, num, stop, cur, arg, numOf, steps>>
  /\ UNCHANGED <<iter, results, heap, held, view, built>>

CallSocketAddrV6Parse == Make("SocketAddrV6.parse", SocketAddrV6Parse(input))

CallPortParse == Make("Port.parse", Returned(PortParse(input)))

CallMakeIpv4AddrParse == Make("Ipv4Addr.parse", Ipv4AddrParseCall(input))

CallMakeSocketAddrV4Parse == Make("SocketAddrV4.parse", SocketAddrV4ParseCall(input))

\* a factory called on arguments that are no text; input holds the arguments
MakeFrom(name, args, outcome) ==
  /\ op = "none"
  /\ input = <<>>
  /\ op' = name
  /\ input' = args
  /\ ret' = outcome.value
  /\ thrown' = outcome.thrown
  /\ UNCHANGED <<num, stop, cur, arg, numOf, steps>>
  /\ UNCHANGED <<iter, results, heap, held, view, built>>

CallIpv4TryNew ==
  \E a \in NumberArgs, d \in NumberArgs :
    MakeFrom("Ipv4Addr.tryNew", <<a, IntZero, IntOf(255), d>>,
             Returned(Ipv4TryNewNumbers(a, IntZero, IntOf(255), d)))

CallIpv4TryFromUint32 ==
  \E n \in NumberArgs \cup Uint32Args :
    MakeFrom("Ipv4Addr.tryFromUint32", <<n>>, Returned(Ipv4TryFromUint32(n)))

CallIpv4TryFromArray ==
  \E array \in NumberArrays :
    MakeFrom("Ipv4Addr.tryFromArray", array, Returned(Ipv4TryFromArray(array)))

CallIpv4TryFromUint8Array ==
  \E array \in ByteArrays :
    MakeFrom("Ipv4Addr.tryFromUint8Array", array, Returned(tryFromUint8Array(array)))

CallIpv4TryFromUint8ClampedArray ==
  \E array \in ByteArrays :
    MakeFrom("Ipv4Addr.tryFromUint8ClampedArray", array,
             Returned(Ipv4TryFromUint8ClampedArray(array)))

CallIpv4TryFromDataView ==
  \E bytes \in ByteArrays :
    MakeFrom("Ipv4Addr.tryFromDataView", bytes, Ipv4TryFromDataViewCall(bytes))

CallIpv6TryNew ==
  \E a \in NumberArgs, h \in NumberArgs :
    LET s == <<a, IntZero, IntOf(1), IntOf(256), IntOf(65535), IntZero, IntZero, h>>
    IN MakeFrom("Ipv6Addr.tryNew", s, Returned(Ipv6TryNew(s)))

CallIpv6TryFromUint128 ==
  \E u128 \in BigIntArgs :
    MakeFrom("Ipv6Addr.tryFromUint128", <<u128>>, Returned(Ipv6TryFromUint128(u128)))

CallIpv6TryFromArray ==
  \E array \in NumberArrays :
    MakeFrom("Ipv6Addr.tryFromArray", array, Returned(Ipv6TryFromArray(array)))

CallIpv6TryFromUint16Array ==
  \E array \in Uint16Arrays :
    MakeFrom("Ipv6Addr.tryFromUint16Array", array, Returned(tryFromUint16Array(array)))

CallIpv6TryFromDataView ==
  \E bytes \in ByteArrays :
    MakeFrom("Ipv6Addr.tryFromDataView", bytes, Ipv6TryFromDataViewCall(bytes))

CallPortTryNew ==
  \E value \in NumberArgs :
    MakeFrom("Port.tryNew", <<value>>, Returned(PortTryNewNumber(value)))

CallSocketAddrV4TryNew ==
  \E addr \in {Ipv4LOCALHOST, Ipv4BROADCAST}, portNum \in NumberArgs :
    MakeFrom("SocketAddrV4.tryNew", <<addr, portNum>>,
             Returned(SocketAddrV4TryNewNumber(addr, portNum)))

\* SocketAddrV6.tryNew(addr, portNum, flowInfo, scopeId); arg holds addr and
\* input the three numbers
CallSocketAddrV6TryNew ==
  /\ op = "none"
  /\ input = <<>>
  /\ \E addr \in SocketV6Addrs, portNum \in PortArgs,
        flowInfo \in Uint32Args, scopeId \in Uint32Args :
       /\ arg' = addr
       /\ input' = <<portNum, flowInfo, scopeId>>
       /\ ret' = SocketAddrV6TryNew(addr, portNum, flowInfo, scopeId)
  /\ op' = "SocketAddrV6.tryNew"
  /\ thrown' = ""
  /\ UNCHANGED <<num, stop, cur, numOf, steps>>
  /\ UNCHANGED <<iter, results, heap, held, view, built>>

\* toString() of the socket that tryNew returned; cur holds the socket
CallSocketAddrV6ToString ==
  /\ op = "SocketAddrV6.tryNew"
  /\ ret # Null
  /\ op' = "SocketAddrV6.toString"
  /\ cur' = ret
  /\ ret' = SocketAddrV6ToString(ret)
  /\ UNCHANGED <<input, num, stop, arg, numOf, steps>>
  /\ UNCHANGED NoObjects

\* the static methods that return an Ipv4Addr or null
Ipv4Factories ==
  {"Ipv4Addr.parse", "Ipv4Addr.tryNew", "Ipv4Addr.tryFromUint32", "Ipv4Addr.tryFromArray",
   "Ipv4Addr.tryFromUint8Array", "Ipv4Addr.tryFromUint8ClampedArray",
   "Ipv4Addr.tryFromDataView"}

\* the static methods that return an Ipv6Addr or null
Ipv6Factories ==
  {"Ipv6Addr.tryNew", "Ipv6Addr.tryFromUint128", "Ipv6Addr.tryFromArray",
   "Ipv6Addr.tryFromUint16Array", "Ipv6Addr.tryFromDataView"}

\* previous() or next() of the address a factory returned; cur holds the
\* receiver
Neighbour(factories, name, result) ==
  /\ op \in factories
  /\ ret # Null
  /\ op' = name
  /\ cur' = ret
  /\ ret' = result
  /\ UNCHANGED <<input, num, stop, arg, numOf, steps>>
  /\ UNCHANGED NoObjects

CallMadeIpv4Previous == Neighbour(Ipv4Factories, "Ipv4Addr.previous", Ipv4Previous(ret))

CallMadeIpv4Next == Neighbour(Ipv4Factories, "Ipv4Addr.next", Ipv4Next(ret))

CallMadeIpv6Previous == Neighbour(Ipv6Factories, "Ipv6Addr.previous", Ipv6Previous(ret))

CallMadeIpv6Next == Neighbour(Ipv6Factories, "Ipv6Addr.next", Ipv6Next(ret))

NextMake ==
  \/ CallMakeIpv4AddrParse
  \/ CallMakeSocketAddrV4Parse
  \/ CallIpv4TryNew
  \/ CallIpv4TryFromUint32
  \/ CallIpv4TryFromArray
  \/ CallIpv4TryFromUint8Array
  \/ CallIpv4TryFromUint8ClampedArray
  \/ CallIpv4TryFromDataView
  \/ CallIpv6TryNew
  \/ CallIpv6TryFromUint128
  \/ CallIpv6TryFromArray
  \/ CallIpv6TryFromUint16Array
  \/ CallIpv6TryFromDataView
  \/ CallPortTryNew
  \/ CallSocketAddrV4TryNew
  \/ CallMadeIpv4Previous
  \/ CallMadeIpv4Next
  \/ CallMadeIpv6Previous
  \/ CallMadeIpv6Next
  \/ CallSocketAddrV6Parse
  \/ CallSocketAddrV6TryNew
  \/ CallSocketAddrV6ToString
  \/ CallPortParse

SpecMake == InitMake /\ [][NextMake]_vars

(***************************************************************************)
(* Claims about construction                                               *)
(***************************************************************************)
\* C21: SocketAddrV6.parse raises the 'Not implemented yet' error for every
\* text, well-formed or not; it never returns, neither null nor a socket
\* address.
C21_SocketAddrV6ParseUnsupported ==
  op = "SocketAddrV6.parse" => thrown = "Not implemented yet"

C21_Witness ==
  /\ op = "SocketAddrV6.parse"
  /\ input = <<91, Colon, Colon, 49, 93, Colon, 56, 48>>
  /\ thrown = "Not implemented yet"

\* C24: Port.parse(s) returns a Port, with the value s denotes, only when s
\* as a whole is the decimal text of an integer in 0..65535, and null for
\* every other text.
C24_PortParseWholeText ==
  op = "Port.parse" =>
    ret = IF /\ input # <<>>
             /\ \A i \in 1..Len(input) : IsDigit(input[i])
             /\ DecimalValue(input) <= 65535
          THEN <<DecimalValue(input)>>
          ELSE Null

\* the port arguments that are integers in 0..65535
PortArgsInRange == {IntZero, IntOf(80), IntOf(3000), IntOf(65535)}

\* the arguments above that are integers in 0..2^32 - 1
Uint32ArgsInRange == {IntZero, IntOf(1), Uint32Max}

\* C23: SocketAddrV6.tryNew returns null when the port is no integer in
\* 0..65535 or the flow info or the scope id is no integer in 0..2^32 - 1
\* (NaN and the infinities included), and otherwise a socket whose addr,
\* port.value, flowInfo and scopeId are the arguments.
C23_SocketAddrV6TryNew ==
  op = "SocketAddrV6.tryNew" =>
    ret = IF /\ input[1] \in PortArgsInRange
             /\ input[2] \in Uint32ArgsInRange
             /\ input[3] \in Uint32ArgsInRange
          THEN <<arg, NumberOf(input[1]), input[2], input[3]>>
          ELSE Null

C23_Witness ==
  /\ op = "SocketAddrV6.tryNew"
  /\ input = <<IntOf(65535), Uint32Max, IntOf(1)>>
  /\ ret = <<Ipv6LOCALHOST, 65535, Uint32Max, IntOf(1)>>

\* the uncompressed text of the three socket addresses
AddrText(addr) ==
  IF addr = Ipv6LOCALHOST THEN <<48, 48, 48, 48, 58, 48, 48, 48, 48, 58, 48, 48, 48, 48, 58, 48, 48, 48, 48, 58, 48, 48, 48, 48, 58, 48, 48, 48, 48, 58, 48, 48, 48, 48, 58, 48, 48, 48, 49>>
  ELSE IF addr = Ipv6UNSPECIFIED THEN <<48, 48, 48, 48, 58, 48, 48, 48, 48, 58, 48, 48, 48, 48, 58, 48, 48, 48, 48, 58, 48, 48, 48, 48, 58, 48, 48, 48, 48, 58, 48, 48, 48, 48, 58, 48, 48, 48, 48>>
  ELSE <<50, 48, 48, 49, 58, 48, 100, 98, 56, 58, 48, 48, 48, 48, 58, 48, 48, 48, 48, 58, 48, 48, 48, 48, 58, 48, 48, 48, 48, 58, 97, 98, 99, 100, 58, 48, 48, 102, 102>>

\* the decimal text of the ports 0, 80, 3000 and 65535
PortText(value) ==
  IF value = 0 THEN <<48>>
  ELSE IF value = 80 THEN <<56, 48>>
  ELSE IF value = 3000 THEN <<51, 48, 48, 48>>
  ELSE <<54, 53, 53, 51, 53>>

\* the decimal text of the scope ids 1 and 2^32 - 1
ScopeText(scopeId) ==
  IF scopeId = IntOf(1) THEN <<49>> ELSE <<52, 50, 57, 52, 57, 54, 55, 50, 57, 53>>

C26_WitnessScoped ==
  /\ op = "SocketAddrV6.toString"
  /\ cur[1] = <<8193, 3512, 0, 0, 0, 0, 43981, 255>>
  /\ cur[4] = Uint32Max

\* four octets, each in 0..255
IsIpv4Value(v) == Len(v) = 4 /\ \A i \in 1..Len(v) : v[i] \in 0..255

\* eight segments, each in 0..65535
IsIpv6Value(v) == Len(v) = 8 /\ \A i \in 1..Len(v) : v[i] \in 0..65535

\* a value of the class the method op belongs to
IsValueOf(method, v) ==
  IF method \in Ipv4Factories THEN IsIpv4Value(v)
  ELSE IF method \in Ipv6Factories THEN IsIpv6Value(v)
  ELSE IF method \in {"Port.parse", "Port.tryNew"} THEN Len(v) = 1 /\ v[1] \in 0..65535
  ELSE IF method \in {"SocketAddrV4.parse", "SocketAddrV4.tryNew"}
       THEN Len(v) = 2 /\ IsIpv4Value(v[1]) /\ v[2] \in 0..65535
  ELSE /\ Len(v) = 4 /\ IsIpv6Value(v[1]) /\ v[2] \in 0..65535
       /\ v[3] \in Uint32ArgsInRange /\ v[4] \in Uint32ArgsInRange

\* the parse methods and factories that report failure by null
NullOnFailure ==
  Ipv4Factories \cup Ipv6Factories
    \cup {"Port.parse", "Port.tryNew", "SocketAddrV4.parse", "SocketAddrV4.tryNew",
          "SocketAddrV6.tryNew"}

\* C22: Ipv4Addr.parse, SocketAddrV4.parse, Port.parse and every tryNew and
\* tryFrom* factory return a valid value or null and never throw, whatever the
\* text (the empty one included), number (NaN and the infinities included) or
\* buffer length they are given.
C22_FailuresAreNull ==
  op \in NullOnFailure => thrown = "" /\ (ret = Null \/ IsValueOf(op, ret))

\* the empty text is answered with null
C22_Witness ==
  /\ op = "Ipv4Addr.parse"
  /\ input = <<>>
  /\ ret = Null
  /\ thrown = ""

\* C27: every address returned by a factory, by parse, by previous() or by
\* next() has exactly 4 octets in 0..255 (Ipv4Addr) or exactly 8 segments in
\* 0..65535 (Ipv6Addr).
C27_AddressShape ==
  /\ op \in Ipv4Factories \cup {"Ipv4Addr.previous", "Ipv4Addr.next"} /\ ret # Null
       => Len(ret) = 4 /\ \A i \in 1..Len(ret) : ret[i] >= 0 /\ ret[i] <= 255
  /\ op \in Ipv6Factories \cup {"Ipv6Addr.previous", "Ipv6Addr.next"} /\ ret # Null
       => Len(ret) = 8 /\ \A i \in 1..Len(ret) : ret[i] >= 0 /\ ret[i] <= 65535

\* 1.0.255.255, built by tryNew, is followed by 1.1.0.0
C27_Witness ==
  /\ op = "Ipv4Addr.next"
  /\ cur = <<1, 0, 255, 255>>
  /\ ret = <<1, 1, 0, 0>>

\* the scope RFC 7346 gives a scope nibble, null when it gives none
ScopeOfNibble(nibble) ==
  IF nibble = 1 THEN <<"InterfaceLocal">>
  ELSE IF nibble = 2 THEN <<"LinkLocal">>
  ELSE IF nibble = 3 THEN <<"RealmLocal">>
  ELSE IF nibble = 4 THEN <<"AdminLocal">>
  ELSE IF nibble = 5 THEN <<"SiteLocal">>
  ELSE IF nibble = 8 THEN <<"OrganizationLocal">>
  ELSE IF nibble = 14 THEN <<"Global">>
  ELSE Null

\* C25: multicastScope() is null when the top byte of segment 0 is not 0xff;
\* for a multicast address it depends only on the low 4 bits of segment 0
\* (1, 2, 3, 4, 5, 8, 14 name a scope, every other nibble gives null),
\* whatever the flag bits are.
C25_MulticastScope ==
  op = "multicastScope" =>
    ret = IF arg[1] \div 256 # 255 THEN Null ELSE ScopeOfNibble(arg[1] % 16)

\* ff1e::1, flag bits set, has the Global scope
C25_Witness ==
  /\ op = "multicastScope"
  /\ arg = <<65310, 0, 0, 0, 0, 0, 0, 1>>
  /\ ret = <<"Global">>

\* C28: at most one of isUnspecified, isPrivate, isShared, isLoopback,
\* isLinkLocal, isDocumentation, isBenchmarking, isMulticast, isReserved and
\* isBroadcast is true of an IPv4 address.
C28_Ipv4RangesDisjoint ==
  op = "Ipv4Addr ranges" => Cardinality({i \in 1..Len(ret) : ret[i]}) <= 1

\* 255.255.255.255 is broadcast and nothing else
C28_Witness ==
  /\ op = "Ipv4Addr ranges"
  /\ arg = <<255, 255, 255, 255>>
  /\ ret = <<FALSE, FALSE, FALSE, FALSE, FALSE, FALSE, FALSE, FALSE, FALSE, TRUE>>

\* C29: an IPv6 address that is global and unicast is unicast-global, and no
\* benchmarking address (2001:2:0::/48) is global.
C29_GlobalUnicast ==
  op = "Ipv6Addr global unicast" =>
    /\ (ret[1] /\ ret[2] => ret[3])
    /\ (arg[1] = 8193 /\ arg[2] = 2 /\ arg[3] = 0 => ~ret[1])

\* a benchmarking address is asked
C29_Witness ==
  /\ op = "Ipv6Addr global unicast"
  /\ arg[1] = 8193 /\ arg[2] = 2 /\ arg[3] = 0
  /\ ret = <<FALSE, TRUE, FALSE>>

\* the integer form of the end address the iterator was constructed with
EndOf(it, end) == IF it.family = "v4" THEN Ipv4ToUint32(end) ELSE Ipv6ToUint128(end)

\* C30: an iterator's end never changes; every result with done false
\* carries an address v, never null, with start <= v < end; and an iterator
\* constructed with start > end yields nothing.
C30_IteratorBounds ==
  iter # Null =>
    /\ iter.end = EndOf(iter, arg)
    /\ \A i \in 1..Len(results) :
         ~results[i].done =>
           /\ results[i].value # Null
           /\ ~AddrLess(results[i].value, cur)
           /\ AddrLess(results[i].value, arg)
    /\ AddrLess(arg, cur) => \A i \in 1..Len(results) : results[i].done

\* an iterator from 0.0.1.0 to 0.0.0.255 is done at the first next()
C30_Witness ==
  /\ iter # Null
  /\ cur = <<0, 0, 1, 0>>
  /\ arg = <<0, 0, 0, 255>>
  /\ Len(results) = 2
  /\ results[1] = [value |-> Null, done |-> TRUE]

====
